---- MODULE Spec2Model ----
(***************************************************************************)
(* Classification-draft lifecycle of telegram-chat-organizer.              *)
(*                                                                         *)
(* JSON values (what json.load returns) are tagged records:                *)
(*   [k |-> "null"], [k |-> "bool", b], [k |-> "int", i],                  *)
(*   [k |-> "float", cls, tr, fr]  (cls "fin": tr.fr, one decimal;         *)
(*                                  cls "nan" / "inf"),                    *)
(*   [k |-> "str", s]   s a sequence of one-character strings,             *)
(*   [k |-> "list", l], [k |-> "obj", o]  o a record of the present keys.  *)
(* A raised exception is [k |-> "raise", exc].                             *)
(***************************************************************************)
EXTENDS Integers, Sequences, FiniteSets, TLC

VARIABLES
    pc,            \* position of the operation / controller under study
    data,          \* normalize_groups_data: the argument
    normalized,    \* normalize_groups_data: value returned (or raised)
    renormalized,  \* normalize_groups_data applied to its own result
    results,       \* merge_categorization_results: the batch results
    merged,        \* merge_categorization_results: the merged draft
    refData,       \* validate_reference_integrity: the draft
    errors,        \* validate_reference_integrity: the messages returned
    csvDraft,      \* export_classification_review_csv: the draft exported
    csvChats,      \* the chat snapshot (chats_for_ai) of the CSV bridge
    csvFile,       \* the review file on disk
    rebuilt,       \* build_categorization_from_review_csv: returned or raised
    unChats,       \* compute_unassigned_chats: the argument chats
    unDraft,       \* compute_unassigned_chats: the argument categorized_data
    unassigned,    \* compute_unassigned_chats: the list returned
    wizDisk,       \* wizard: the draft file on disk
    wizDraft,      \* wizard: the draft in memory, as last read or changed
    wizStage,      \* wizard: 1 before the unassigned review, 2 after it
    wizDefault,    \* wizard: the `default` its yes/no prompts are given
    wizRounds,     \* wizard: failed validations so far (counted up to WizMaxRounds)
    wizRetryLine,  \* wizard: the last answer read at the retry gate
    wizLine1,      \* wizard: the answer that decided confirmation stage 1
    wizLine2,      \* wizard: the answer that decided confirmation stage 2
    wizFinal,      \* wizard: the final artifact on disk
    wizBackups,    \* wizard: backups taken of earlier final artifacts
    wizApplied,    \* wizard: drafts handed to update_folders_with_categorization
    legFile,       \* run.py: groups.json on disk
    legData,       \* run.py: existing_data / manual_data of the handler
    legCleared,    \* run.py: clear_existing_folders was called
    legValidated,  \* run.py: the checks run, as <<check, data>>
    legReuse,      \* run.py: the reply to "use the existing data?"
    legDone,       \* run.py: the reply awaited after the AI guide
    legApplied,    \* run.py: data handed to update_folders_with_categorization
    apDraft,       \* update_folders_with_categorization: categorized_data
    apFolders,     \* existing_folders: folder id -> existing_peers
    apCleared,     \* folders_were_cleared
    apIndex,       \* position of the loop in `categorized`
    apPass,        \* 1 during the first application, 2 during the second
    apRequests,    \* UpdateDialogFilterRequests sent, with their outcome
    apAfterFirst,  \* existing_folders as the first application left them
    clsMaxRetries, \* config.ai_max_retries
    clsAttempt,    \* _run_with_retry: attempt
    clsFailures,   \* the exceptions the provider call raised so far
    clsResponse,   \* response_text
    clsResult,     \* what classify returned or raised
    rvDraft0,      \* unassigned review: the draft the review started from
    rvDraft,       \* the draft under review
    rvUnassigned,  \* compute_unassigned_chats at the start of the review
    rvIndex,       \* reviewing(index), counted from 0
    rvLast,        \* last-used folder id, 0 when none
    rvBulk,        \* the confirmed bulk-assign: index, folder, draft before it
    rvSuggested,   \* the folder id suggested for the chat on display, 0 when none
    svFile,        \* save_json_file: content of the final artifact, Null when absent
    svBackups,     \* backup files: timestamp -> content
    svClock,       \* datetime.now(), in seconds
    svSaved,       \* the contents for which save_groups_data returned True
    svCount,       \* calls of save_groups_data so far
    svReturned,    \* what the last call returned
    prDefault,     \* prompt_yes_no: default
    prTimed,       \* whether timeout_seconds is set
    prTurn,        \* turns of the `while True` loop so far
    prRead,        \* what the last input() did
    prResult,      \* what prompt_yes_no returned or raised
    shData,        \* validate_groups_json: data
    shWhich,       \* the validator called: organizer's or run.py's
    shResult,      \* the (ok, message) it returned
    agData,        \* the draft given to the shape check and then to the reference checks
    agShape,       \* validate_groups_json(agData)
    agErrors,      \* validate_reference_integrity(agData, ...)
    agUnassigned,  \* compute_unassigned_chats(chats, agData)
    asDraft,       \* add_chat_assignment: categorized_data, changed in place
    asBefore,      \* categorized_data as it was before the last call
    asArgs,        \* folder_id, folder_title, chat and reason of the last call
    asCount,       \* calls of add_chat_assignment so far
    ioPrompt,      \* prompt_text: calls so far; the last one is the prompt awaited
    ioTimed,       \* whether the prompt awaited has a timeout_seconds
    ioReaders,     \* the prompts whose thread is still inside input()
    ioStdin,       \* lines the user entered that no input() has read yet
    ioTyped,       \* lines the user entered so far
    ioDelivered,   \* who read each line: the prompt, and whether it was awaited
    ioResult,      \* what the last prompt_text returned
    rtMaxRetries,  \* _run_with_retry: max_retries
    rtBackoff,     \* backoff_seconds, in tenths of a second
    rtAttempt,     \* attempt
    rtInFlight,    \* calls of func that have started and not ended
    rtCalls,       \* calls of func so far
    rtFailures,    \* the exceptions func raised, in order
    rtDelays,      \* the delays slept, in order, in tenths of a second
    rtResult       \* what _run_with_retry returned or raised

normVars == <<data, normalized, renormalized>>
mergeVars == <<results, merged>>
refsVars == <<refData, errors>>
csvVars == <<csvDraft, csvChats, csvFile, rebuilt>>
unVars == <<unChats, unDraft, unassigned>>
wizVars == <<wizDisk, wizDraft, wizStage, wizDefault, wizRounds, wizRetryLine, wizLine1, wizLine2, wizFinal, wizBackups, wizApplied>>
legVars == <<legFile, legData, legCleared, legValidated, legReuse, legDone, legApplied>>
apVars == <<apDraft, apFolders, apCleared, apIndex, apPass, apRequests, apAfterFirst>>
clsVars == <<clsMaxRetries, clsAttempt, clsFailures, clsResponse, clsResult>>
rvVars == <<rvDraft0, rvDraft, rvUnassigned, rvIndex, rvLast, rvBulk, rvSuggested>>
svVars == <<svFile, svBackups, svClock, svSaved, svCount, svReturned>>
prVars == <<prDefault, prTimed, prTurn, prRead, prResult>>
shVars == <<shData, shWhich, shResult>>
agVars == <<agData, agShape, agErrors, agUnassigned>>
asVars == <<asDraft, asBefore, asArgs, asCount>>
ioVars == <<ioPrompt, ioTimed, ioReaders, ioStdin, ioTyped, ioDelivered, ioResult>>
rtVars == <<rtMaxRetries, rtBackoff, rtAttempt, rtInFlight, rtCalls, rtFailures, rtDelays, rtResult>>
vars == <<pc, normVars, mergeVars, refsVars, csvVars, unVars, wizVars, legVars, apVars, clsVars, rvVars, svVars, prVars, shVars, agVars, asVars, ioVars, rtVars>>

-----------------------------------------------------------------------------
(* Bounds of the model *)
NormMaxFolders == 2      \* entries of `categorized` given to the normalizer
NormMaxChats == 2        \* entries of one `chats` list given to the normalizer
MergeMaxBatches == 2     \* batch results given to the merger
MergeMaxFolders == 2     \* folder entries of one batch result
RefMaxFolders == 2       \* folder entries of a draft given to the reference check
RefMaxChats == 2         \* chats of one folder entry given to the reference check
CsvMaxFolders == 2       \* folder entries of a draft that is exported
CsvMaxRows == 3          \* lines of an edited review file
UnMaxChats == 3          \* chats given to compute_unassigned_chats
UnMaxFolders == 2        \* folder entries of the draft given to it
WizMaxRounds == 2        \* failed validations the wizard's history counts
ApMaxFolders == 2        \* folder entries of the draft that is applied
ClsMaxRetries == 2       \* largest ai_max_retries
RvMaxChats == 3          \* chats of the snapshot under unassigned review
SvMaxSaves == 3          \* calls of save_groups_data
SvMaxClock == 2          \* seconds the clock can advance
PrMaxTurns == 2          \* turns of the prompt loop

(* Program constants *)
ReasonMaxLen == 200      \* _truncate(..., 200) in normalize_groups_data

-----------------------------------------------------------------------------
(* JSON values *)
Null == [k |-> "null"]
Bool(b) == [k |-> "bool", b |-> b]
Int_(i) == [k |-> "int", i |-> i]
FloatFin(t, f) == [k |-> "float", cls |-> "fin", tr |-> t, fr |-> f]
FloatInf == [k |-> "float", cls |-> "inf", tr |-> 0, fr |-> 0]
FloatNaN == [k |-> "float", cls |-> "nan", tr |-> 0, fr |-> 0]
Str(s) == [k |-> "str", s |-> s]
List(l) == [k |-> "list", l |-> l]
Obj(o) == [k |-> "obj", o |-> o]
Raise(e) == [k |-> "raise", exc |-> e]
EmptyRec == [x \in {} |-> Null]

IsDict(v) == v.k = "obj"
IsList(v) == v.k = "list"
Has(d, key) == key \in DOMAIN d.o
\* dict.get(key, default)
Get(d, key, default) == IF key \in DOMAIN d.o THEN d.o[key] ELSE default

Rep(c, n) == [i \in 1..n |-> c]

-----------------------------------------------------------------------------
(* Each specification runs one component; the variables of the others keep
   their idle values *)
NormIdle == data = Null /\ normalized = Null /\ renormalized = Null
MergeIdle == results = <<>> /\ merged = Null
RefsIdle == refData = Null /\ errors = <<>>
CsvIdle ==
    /\ csvDraft = Null
    /\ csvChats = <<>>
    /\ csvFile = Null
    /\ rebuilt = Null
UnIdle == unChats = <<>> /\ unDraft = Null /\ unassigned = Null
WizIdle ==
    /\ wizDisk = Null
    /\ wizDraft = Null
    /\ wizStage = 0
    /\ wizDefault = Null
    /\ wizRounds = 0
    /\ wizRetryLine = Null
    /\ wizLine1 = Null
    /\ wizLine2 = Null
    /\ wizFinal = Null
    /\ wizBackups = <<>>
    /\ wizApplied = <<>>
LegIdle ==
    /\ legFile = Null
    /\ legData = Null
    /\ legCleared = FALSE
    /\ legValidated = {}
    /\ legReuse = Null
    /\ legDone = Null
    /\ legApplied = <<>>
ApIdle ==
    /\ apDraft = Null
    /\ apFolders = <<>>
    /\ apCleared = FALSE
    /\ apIndex = 0
    /\ apPass = 0
    /\ apRequests = <<>>
    /\ apAfterFirst = <<>>
ClsIdle ==
    /\ clsMaxRetries = 0
    /\ clsAttempt = 0
    /\ clsFailures = <<>>
    /\ clsResponse = Null
    /\ clsResult = Null
RvIdle ==
    /\ rvDraft0 = Null
    /\ rvDraft = Null
    /\ rvUnassigned = <<>>
    /\ rvIndex = 0
    /\ rvLast = 0
    /\ rvBulk = Null
    /\ rvSuggested = 0
SvIdle ==
    /\ svFile = Null
    /\ svBackups = <<>>
    /\ svClock = 0
    /\ svSaved = {}
    /\ svCount = 0
    /\ svReturned = Null
PrIdle ==
    /\ prDefault = Null
    /\ prTimed = FALSE
    /\ prTurn = 0
    /\ prRead = Null
    /\ prResult = Null
ShIdle == shData = Null /\ shWhich = Null /\ shResult = Null
AgIdle ==
    /\ agData = Null
    /\ agShape = Null
    /\ agErrors = <<>>
    /\ agUnassigned = <<>>
AsIdle == asDraft = Null /\ asBefore = Null /\ asArgs = Null /\ asCount = 0
IoIdle ==
    /\ ioPrompt = 0
    /\ ioTimed = FALSE
    /\ ioReaders = {}
    /\ ioStdin = <<>>
    /\ ioTyped = 0
    /\ ioDelivered = <<>>
    /\ ioResult = Null
RtIdle ==
    /\ rtMaxRetries = 0
    /\ rtBackoff = 0
    /\ rtAttempt = 0
    /\ rtInFlight = 0
    /\ rtCalls = 0
    /\ rtFailures = <<>>
    /\ rtDelays = <<>>
    /\ rtResult = Null

NormRest == <<mergeVars, refsVars, csvVars, unVars, wizVars, legVars, apVars, clsVars, rvVars, svVars, prVars, shVars, agVars, asVars, ioVars, rtVars>>
NormRestIdle ==
    MergeIdle /\ RefsIdle /\ CsvIdle /\ UnIdle /\ WizIdle /\ LegIdle /\ ApIdle /\ ClsIdle /\ RvIdle /\ SvIdle /\ PrIdle /\ ShIdle /\ AgIdle /\ AsIdle /\ IoIdle /\ RtIdle
MergeRest == <<normVars, refsVars, csvVars, unVars, wizVars, legVars, apVars, clsVars, rvVars, svVars, prVars, shVars, agVars, asVars, ioVars, rtVars>>
MergeRestIdle ==
    NormIdle /\ RefsIdle /\ CsvIdle /\ UnIdle /\ WizIdle /\ LegIdle /\ ApIdle /\ ClsIdle /\ RvIdle /\ SvIdle /\ PrIdle /\ ShIdle /\ AgIdle /\ AsIdle /\ IoIdle /\ RtIdle
RefsRest == <<normVars, mergeVars, csvVars, unVars, wizVars, legVars, apVars, clsVars, rvVars, svVars, prVars, shVars, agVars, asVars, ioVars, rtVars>>
RefsRestIdle ==
    NormIdle /\ MergeIdle /\ CsvIdle /\ UnIdle /\ WizIdle /\ LegIdle /\ ApIdle /\ ClsIdle /\ RvIdle /\ SvIdle /\ PrIdle /\ ShIdle /\ AgIdle /\ AsIdle /\ IoIdle /\ RtIdle
CsvRest == <<normVars, mergeVars, refsVars, unVars, wizVars, legVars, apVars, clsVars, rvVars, svVars, prVars, shVars, agVars, asVars, ioVars, rtVars>>
CsvRestIdle ==
    NormIdle /\ MergeIdle /\ RefsIdle /\ UnIdle /\ WizIdle /\ LegIdle /\ ApIdle /\ ClsIdle /\ RvIdle /\ SvIdle /\ PrIdle /\ ShIdle /\ AgIdle /\ AsIdle /\ IoIdle /\ RtIdle
UnRest == <<normVars, mergeVars, refsVars, csvVars, wizVars, legVars, apVars, clsVars, rvVars, svVars, prVars, shVars, agVars, asVars, ioVars, rtVars>>
UnRestIdle ==
    NormIdle /\ MergeIdle /\ RefsIdle /\ CsvIdle /\ WizIdle /\ LegIdle /\ ApIdle /\ ClsIdle /\ RvIdle /\ SvIdle /\ PrIdle /\ ShIdle /\ AgIdle /\ AsIdle /\ IoIdle /\ RtIdle
WizRest == <<normVars, mergeVars, refsVars, csvVars, unVars, legVars, apVars, clsVars, rvVars, svVars, prVars, shVars, agVars, asVars, ioVars, rtVars>>
WizRestIdle ==
    NormIdle /\ MergeIdle /\ RefsIdle /\ CsvIdle /\ UnIdle /\ LegIdle /\ ApIdle /\ ClsIdle /\ RvIdle /\ SvIdle /\ PrIdle /\ ShIdle /\ AgIdle /\ AsIdle /\ IoIdle /\ RtIdle
LegRest == <<normVars, mergeVars, refsVars, csvVars, unVars, wizVars, apVars, clsVars, rvVars, svVars, prVars, shVars, agVars, asVars, ioVars, rtVars>>
LegRestIdle ==
    NormIdle /\ MergeIdle /\ RefsIdle /\ CsvIdle /\ UnIdle /\ WizIdle /\ ApIdle /\ ClsIdle /\ RvIdle /\ SvIdle /\ PrIdle /\ ShIdle /\ AgIdle /\ AsIdle /\ IoIdle /\ RtIdle
ApRest == <<normVars, mergeVars, refsVars, csvVars, unVars, wizVars, legVars, clsVars, rvVars, svVars, prVars, shVars, agVars, asVars, ioVars, rtVars>>
ApRestIdle ==
    NormIdle /\ MergeIdle /\ RefsIdle /\ CsvIdle /\ UnIdle /\ WizIdle /\ LegIdle /\ ClsIdle /\ RvIdle /\ SvIdle /\ PrIdle /\ ShIdle /\ AgIdle /\ AsIdle /\ IoIdle /\ RtIdle
ClsRest == <<normVars, mergeVars, refsVars, csvVars, unVars, wizVars, legVars, apVars, rvVars, svVars, prVars, shVars, agVars, asVars, ioVars, rtVars>>
ClsRestIdle ==
    NormIdle /\ MergeIdle /\ RefsIdle /\ CsvIdle /\ UnIdle /\ WizIdle /\ LegIdle /\ ApIdle /\ RvIdle /\ SvIdle /\ PrIdle /\ ShIdle /\ AgIdle /\ AsIdle /\ IoIdle /\ RtIdle
RvRest == <<normVars, mergeVars, refsVars, csvVars, unVars, wizVars, legVars, apVars, clsVars, svVars, prVars, shVars, agVars, asVars, ioVars, rtVars>>
RvRestIdle ==
    NormIdle /\ MergeIdle /\ RefsIdle /\ CsvIdle /\ UnIdle /\ WizIdle /\ LegIdle /\ ApIdle /\ ClsIdle /\ SvIdle /\ PrIdle /\ ShIdle /\ AgIdle /\ AsIdle /\ IoIdle /\ RtIdle
SvRest == <<normVars, mergeVars, refsVars, csvVars, unVars, wizVars, legVars, apVars, clsVars, rvVars, prVars, shVars, agVars, asVars, ioVars, rtVars>>
SvRestIdle ==
    NormIdle /\ MergeIdle /\ RefsIdle /\ CsvIdle /\ UnIdle /\ WizIdle /\ LegIdle /\ ApIdle /\ ClsIdle /\ RvIdle /\ PrIdle /\ ShIdle /\ AgIdle /\ AsIdle /\ IoIdle /\ RtIdle
PrRest == <<normVars, mergeVars, refsVars, csvVars, unVars, wizVars, legVars, apVars, clsVars, rvVars, svVars, shVars, agVars, asVars, ioVars, rtVars>>
PrRestIdle ==
    NormIdle /\ MergeIdle /\ RefsIdle /\ CsvIdle /\ UnIdle /\ WizIdle /\ LegIdle /\ ApIdle /\ ClsIdle /\ RvIdle /\ SvIdle /\ ShIdle /\ AgIdle /\ AsIdle /\ IoIdle /\ RtIdle
ShRest == <<normVars, mergeVars, refsVars, csvVars, unVars, wizVars, legVars, apVars, clsVars, rvVars, svVars, prVars, agVars, asVars, ioVars, rtVars>>
ShRestIdle ==
    NormIdle /\ MergeIdle /\ RefsIdle /\ CsvIdle /\ UnIdle /\ WizIdle /\ LegIdle /\ ApIdle /\ ClsIdle /\ RvIdle /\ SvIdle /\ PrIdle /\ AgIdle /\ AsIdle /\ IoIdle /\ RtIdle
AgRest == <<normVars, mergeVars, refsVars, csvVars, unVars, wizVars, legVars, apVars, clsVars, rvVars, svVars, prVars, shVars, asVars, ioVars, rtVars>>
AgRestIdle ==
    NormIdle /\ MergeIdle /\ RefsIdle /\ CsvIdle /\ UnIdle /\ WizIdle /\ LegIdle /\ ApIdle /\ ClsIdle /\ RvIdle /\ SvIdle /\ PrIdle /\ ShIdle /\ AsIdle /\ IoIdle /\ RtIdle
AsRest == <<normVars, mergeVars, refsVars, csvVars, unVars, wizVars, legVars, apVars, clsVars, rvVars, svVars, prVars, shVars, agVars, ioVars, rtVars>>
AsRestIdle ==
    NormIdle /\ MergeIdle /\ RefsIdle /\ CsvIdle /\ UnIdle /\ WizIdle /\ LegIdle /\ ApIdle /\ ClsIdle /\ RvIdle /\ SvIdle /\ PrIdle /\ ShIdle /\ AgIdle /\ IoIdle /\ RtIdle
IoRest == <<normVars, mergeVars, refsVars, csvVars, unVars, wizVars, legVars, apVars, clsVars, rvVars, svVars, prVars, shVars, agVars, asVars, rtVars>>
IoRestIdle ==
    NormIdle /\ MergeIdle /\ RefsIdle /\ CsvIdle /\ UnIdle /\ WizIdle /\ LegIdle /\ ApIdle /\ ClsIdle /\ RvIdle /\ SvIdle /\ PrIdle /\ ShIdle /\ AgIdle /\ AsIdle /\ RtIdle
RtRest == <<normVars, mergeVars, refsVars, csvVars, unVars, wizVars, legVars, apVars, clsVars, rvVars, svVars, prVars, shVars, agVars, asVars, ioVars>>
RtRestIdle ==
    NormIdle /\ MergeIdle /\ RefsIdle /\ CsvIdle /\ UnIdle /\ WizIdle /\ LegIdle /\ ApIdle /\ ClsIdle /\ RvIdle /\ SvIdle /\ PrIdle /\ ShIdle /\ AgIdle /\ AsIdle /\ IoIdle

-----------------------------------------------------------------------------
(* Python text: str.strip, int(str), str(int) *)
Digits == <<"0", "1", "2", "3", "4", "5", "6", "7", "8", "9">>
IsDigit(c) == \E d \in 1..10 : Digits[d] = c
DigitVal(c) == (CHOOSE d \in 1..10 : Digits[d] = c) - 1
IsSpace(c) == c = " "

RECURSIVE LStrip(_)
LStrip(s) == IF s # <<>> /\ IsSpace(Head(s)) THEN LStrip(Tail(s)) ELSE s
RECURSIVE RStrip(_)
RStrip(s) ==
    IF s # <<>> /\ IsSpace(s[Len(s)]) THEN RStrip(SubSeq(s, 1, Len(s) - 1)) ELSE s
Strip(s) == RStrip(LStrip(s))

RECURSIVE DigitsVal(_)
DigitsVal(s) ==
    IF s = <<>> THEN 0
    ELSE 10 * DigitsVal(SubSeq(s, 1, Len(s) - 1)) + DigitVal(s[Len(s)])

AllDigits(s) == s # <<>> /\ \A i \in 1..Len(s) : IsDigit(s[i])

\* int("...") : surrounding blanks and one sign are accepted
ParseInt(s) ==
    LET t == Strip(s)
        signed == t # <<>> /\ Head(t) \in {"-", "+"}
        body == IF signed THEN Tail(t) ELSE t
    IN  IF AllDigits(body)
        THEN [r |-> "ok",
              val |-> IF signed /\ Head(t) = "-" THEN 0 - DigitsVal(body)
                      ELSE DigitsVal(body)]
        ELSE [r |-> "ValueError", val |-> 0]

RECURSIVE NatToStr(_)
NatToStr(n) ==
    IF n < 10 THEN <<Digits[n + 1]>>
    ELSE NatToStr(n \div 10) \o <<Digits[(n % 10) + 1]>>
IntToStr(n) == IF n < 0 THEN <<"-">> \o NatToStr(0 - n) ELSE NatToStr(n)

\* int(value) : the value, or the exception it raises
IntCoerce(v) ==
    CASE v.k = "int" -> [r |-> "ok", val |-> v.i]
      [] v.k = "bool" -> [r |-> "ok", val |-> IF v.b THEN 1 ELSE 0]
      [] v.k = "float" ->
            IF v.cls = "fin" THEN [r |-> "ok", val |-> v.tr]
            ELSE IF v.cls = "nan" THEN [r |-> "ValueError", val |-> 0]
            ELSE [r |-> "OverflowError", val |-> 0]
      [] v.k = "str" -> ParseInt(v.s)
      [] OTHER -> [r |-> "TypeError", val |-> 0]

\* str(value) for the scalars the drafts carry in their text fields
PyStr(v) ==
    CASE v.k = "str" -> v.s
      [] v.k = "null" -> <<"N", "o", "n", "e">>
      [] v.k = "int" -> IntToStr(v.i)
      [] v.k = "bool" -> IF v.b THEN <<"T", "r", "u", "e">>
                         ELSE <<"F", "a", "l", "s", "e">>
      [] v.k = "float" ->
            IF v.cls = "fin" THEN IntToStr(v.tr) \o <<".">> \o NatToStr(v.fr)
            ELSE IF v.cls = "nan" THEN <<"n", "a", "n">>
            ELSE <<"i", "n", "f">>

\* the slice text[:n]
Prefix(text, n) == SubSeq(text, 1, IF Len(text) < n THEN Len(text) ELSE n)

\* mutant of Truncate: the marker is appended without the length test
TruncateNoLengthTest(text, max_len) ==
    IF text = <<>> THEN <<>>
    ELSE Prefix(text, max_len) \o <<".", ".", ".">>

\* classification._truncate
Truncate(text, max_len) ==
    IF text = <<>> THEN <<>>
    ELSE IF Len(text) <= max_len THEN text
    ELSE Prefix(text, max_len) \o <<".", ".", ".">>

UNKNOWN == <<"U", "N", "K", "N", "O", "W", "N">>

-----------------------------------------------------------------------------
(* classification.normalize_groups_data *)

\* the inner loop over `chats`: accumulates normalized_chats and folder_seen;
\* an exception that no handler of the loop catches ends the whole call
RECURSIVE NormalizeChats(_, _, _)
NormalizeChats(chats, acc, folder_seen) ==
    IF chats = <<>> THEN [r |-> "ok", chats |-> acc]
    ELSE
        LET chat_item == Head(chats)
            rest == Tail(chats)
        IN  IF ~IsDict(chat_item) THEN NormalizeChats(rest, acc, folder_seen)
            ELSE
                LET c == IntCoerce(Get(chat_item, "chat_id", Null))
                IN  IF c.r \in {"ValueError", "TypeError"}
                    THEN NormalizeChats(rest, acc, folder_seen)
                    ELSE IF c.r # "ok" THEN [r |-> c.r, chats |-> <<>>]
                    ELSE IF c.val \in folder_seen
                    THEN NormalizeChats(rest, acc, folder_seen)
                    ELSE NormalizeChats(rest,
                            Append(acc, Obj([
                                chat_id |-> Int_(c.val),
                                type |-> Str(PyStr(Get(chat_item, "type", Str(UNKNOWN)))),
                                reason |-> Str(Truncate(
                                    PyStr(Get(chat_item, "reason", Str(<<>>))),
                                    ReasonMaxLen))])),
                            folder_seen \cup {c.val})

RECURSIVE NormalizeFolders(_, _)
NormalizeFolders(categorized, acc) ==
    IF categorized = <<>> THEN [r |-> "ok", folders |-> acc]
    ELSE
        LET folder_item == Head(categorized)
            rest == Tail(categorized)
        IN  IF ~IsDict(folder_item) THEN NormalizeFolders(rest, acc)
            ELSE
                LET f == IntCoerce(Get(folder_item, "folder_id", Null))
                    chats == Get(folder_item, "chats", List(<<>>))
                IN  IF f.r \in {"ValueError", "TypeError"}
                    THEN NormalizeFolders(rest, acc)
                    ELSE IF f.r # "ok" THEN [r |-> f.r, folders |-> <<>>]
                    ELSE IF ~IsList(chats) THEN NormalizeFolders(rest, acc)
                    ELSE
                        LET nc == NormalizeChats(chats.l, <<>>, {})
                        IN  IF nc.r # "ok" THEN [r |-> nc.r, folders |-> <<>>]
                            ELSE NormalizeFolders(rest,
                                    Append(acc, Obj([
                                        folder_id |-> Int_(f.val),
                                        folder_title |-> Str(Strip(PyStr(
                                            Get(folder_item, "folder_title", Str(<<>>))))),
                                        chats |-> List(nc.chats)])))

normalize_groups_data(d) ==
    IF ~IsDict(d) THEN Raise("ValueError")
    ELSE
        LET categorized == Get(d, "categorized", Null)
        IN  IF ~IsList(categorized) THEN Raise("ValueError")
            ELSE
                LET nf == NormalizeFolders(categorized.l, <<>>)
                IN  IF nf.r # "ok" THEN Raise(nf.r)
                    ELSE Obj([categorized |-> List(nf.folders)])

-----------------------------------------------------------------------------
(* telegram_ops.validate_groups_json : (ok, message); the message is kept as
   <<what, i, j, field>>, the path of the first violation *)
\* a result: ok, and the message as <<what, i, j, field>> for
\* categorized[i].chats[j].field (j = -1: no chat is named)
ShapeOk == [ok |-> TRUE, msg |-> <<"OK", 0, 0, "">>]
ShapeErr(what, i, j, field) == [ok |-> FALSE, msg |-> <<what, i, j, field>>]

RECURSIVE ShapeChats(_, _, _)
ShapeChats(chats, i, j) ==
    IF j > Len(chats) THEN ShapeOk
    ELSE
        LET chat == chats[j]
        IN  IF ~IsDict(chat) THEN ShapeErr("must be an object", i, j - 1, "")
            ELSE IF ~Has(chat, "chat_id") THEN ShapeErr("missing", i, j - 1, "chat_id")
            ELSE
                LET c == IntCoerce(chat.o["chat_id"])
                IN  IF c.r \in {"ValueError", "TypeError"}
                    THEN ShapeErr("must be an integer", i, j - 1, "chat_id")
                    ELSE IF c.r # "ok" THEN ShapeErr("validation failed", 0, 0, c.r)
                    ELSE ShapeChats(chats, i, j + 1)

ShapeMissingField(fu) ==
    IF ~Has(fu, "folder_id") THEN "folder_id"
    ELSE IF ~Has(fu, "folder_title") THEN "folder_title"
    ELSE IF ~Has(fu, "chats") THEN "chats"
    ELSE ""

RECURSIVE ShapeFolders(_, _)
ShapeFolders(categorized, i) ==
    IF i > Len(categorized) THEN ShapeOk
    ELSE
        LET folder_update == categorized[i]
        IN  IF ~IsDict(folder_update) THEN ShapeErr("must be an object", i - 1, -1, "")
            ELSE IF ShapeMissingField(folder_update) # ""
            THEN ShapeErr("missing", i - 1, -1, ShapeMissingField(folder_update))
            ELSE
                LET f == IntCoerce(folder_update.o["folder_id"])
                IN  IF f.r \in {"ValueError", "TypeError"}
                    THEN ShapeErr("must be an integer", i - 1, -1, "folder_id")
                    ELSE IF f.r # "ok" THEN ShapeErr("validation failed", 0, 0, f.r)
                    ELSE IF ~IsList(folder_update.o["chats"])
                    THEN ShapeErr("must be an array", i - 1, -1, "chats")
                    ELSE
                        LET sc == ShapeChats(folder_update.o["chats"].l, i - 1, 1)
                        IN  IF ~sc.ok THEN sc ELSE ShapeFolders(categorized, i + 1)

validate_groups_json(d) ==
    IF ~IsDict(d) THEN ShapeErr("must be an object", 0, 0, "data")
    ELSE
        LET categorized == Get(d, "categorized", Null)
        IN  IF ~IsList(categorized) THEN ShapeErr("missing", 0, 0, "categorized")
            ELSE ShapeFolders(categorized.l, 1)

-----------------------------------------------------------------------------
(* Arguments given to the normalizer: every shape the loops distinguish *)
RECURSIVE SeqsUpTo(_, _)
SeqsUpTo(S, n) ==
    IF n = 0 THEN {<<>>}
    ELSE LET prev == SeqsUpTo(S, n - 1)
         IN  prev \cup {Append(q, x) : q \in {p \in prev : Len(p) = n - 1}, x \in S}

ChatOf(id) == Obj([chat_id |-> id])
\* chat entries that are combined freely: two spellings of chat 1 and an
\* entry that is no object
NormChatCore == {ChatOf(Int_(1)), ChatOf(Str(<<" ", "1">>)), Int_(5)}
\* chat entries that occur alone in their list
NormChatOdd ==
    {ChatOf(Int_(2)), ChatOf(Str(<<"x">>)), ChatOf(Null), ChatOf(FloatInf), ChatOf(FloatNaN),
     ChatOf(FloatFin(1, 9)), ChatOf(Bool(TRUE)), Obj(EmptyRec),
     Obj([chat_id |-> Int_(3), type |-> Str(<<"G">>), reason |-> Null]),
     Obj([chat_id |-> Int_(3), type |-> Null, reason |-> Int_(12)]),
     Obj([chat_id |-> Int_(3), reason |-> Str(Rep("x", ReasonMaxLen))]),
     Obj([chat_id |-> Int_(3), reason |-> Str(Rep("x", ReasonMaxLen + 1))]),
     Obj([chat_id |-> Int_(3), reason |-> Str(Rep("x", ReasonMaxLen + 4))])}
NormChatLists ==
    SeqsUpTo(NormChatCore, NormMaxChats) \cup {<<c>> : c \in NormChatOdd}

NormFolderEntries ==
    {Obj([folder_id |-> Int_(1), folder_title |-> Str(<<"T">>), chats |-> List(l)]) :
        l \in NormChatLists}
    \cup {Str(<<"f">>), Obj(EmptyRec),
          Obj([folder_id |-> Null, folder_title |-> Str(<<"T">>), chats |-> List(<<>>)]),
          Obj([folder_id |-> Str(<<"7", "x">>), chats |-> List(<<ChatOf(Int_(1))>>)]),
          Obj([folder_id |-> FloatInf, folder_title |-> Str(<<"T">>), chats |-> List(<<>>)]),
          Obj([folder_id |-> Str(<<"2", " ">>), chats |-> List(<<ChatOf(Int_(1))>>)]),
          Obj([folder_id |-> Int_(2), folder_title |-> Str(<<" ", "T", " ">>)]),
          Obj([folder_id |-> Int_(2), folder_title |-> Null, chats |-> Str(<<"c">>)]),
          Obj([folder_id |-> Int_(2), folder_title |-> Null, chats |-> List(<<>>)])}

NormInputs ==
    {Null, List(<<>>), Obj(EmptyRec), Obj([categorized |-> Str(<<"c">>)])}
    \cup {Obj([categorized |-> List(l)]) : l \in SeqsUpTo(NormFolderEntries, NormMaxFolders)}

-----------------------------------------------------------------------------
(* Specification SpecNorm: the normalizer applied to an argument, then to
   its own result *)
NormInit ==
    /\ pc = "normalize"
    /\ data \in NormInputs
    /\ normalized = Null
    /\ renormalized = Null
    /\ NormRestIdle

Normalize ==
    /\ pc = "normalize"
    /\ normalized' = normalize_groups_data(data)
    /\ pc' = IF normalized'.k = "raise" THEN "raised" ELSE "renormalize"
    /\ UNCHANGED <<data, renormalized>>
    /\ UNCHANGED NormRest

Renormalize ==
    /\ pc = "renormalize"
    /\ renormalized' = normalize_groups_data(normalized)
    /\ pc' = "normalized"
    /\ UNCHANGED <<data, normalized>>
    /\ UNCHANGED NormRest

NormNext == Normalize \/ Renormalize
SpecNorm == NormInit /\ [][NormNext]_vars

-----------------------------------------------------------------------------
(* Claims about the normalizer *)

Categorized(d) == d.o["categorized"].l
Chats(folder_item) == folder_item.o["chats"].l
ChatId(chat_item) == chat_item.o["chat_id"]
FolderId(folder_item) == folder_item.o["folder_id"]

\* a draft as the data model defines it: integer ids, text fields, chat_ids
\* unique within each folder entry
WellFormedDraft(d) ==
    /\ IsDict(d) /\ DOMAIN d.o = {"categorized"} /\ IsList(d.o["categorized"])
    /\ \A i \in 1..Len(Categorized(d)) :
        LET fi == Categorized(d)[i]
        IN  /\ IsDict(fi) /\ DOMAIN fi.o = {"folder_id", "folder_title", "chats"}
            /\ FolderId(fi).k = "int"
            /\ fi.o["folder_title"].k = "str"
            /\ IsList(fi.o["chats"])
            /\ \A j \in 1..Len(Chats(fi)) :
                LET ci == Chats(fi)[j]
                IN  /\ IsDict(ci) /\ DOMAIN ci.o = {"chat_id", "type", "reason"}
                    /\ ChatId(ci).k = "int"
                    /\ ci.o["type"].k = "str" /\ ci.o["reason"].k = "str"
                    /\ \A j2 \in 1..Len(Chats(fi)) :
                        ChatId(Chats(fi)[j2]) = ChatId(ci) => j2 = j

NormEntryCount(d) ==
    IF IsDict(d) /\ IsList(Get(d, "categorized", Null))
    THEN Len(d.o["categorized"].l) ELSE 0

\* C2: normalisation is idempotent: whenever normalize returns a draft for an
\* object with a categorized array, normalizing that draft again returns it
\* unchanged
C2_NormalizeIdempotent == pc = "normalized" => renormalized = normalized

\* C2 witness: an argument mixing valid and invalid entries was normalized
\* (an entry was dropped, an entry with a chat was kept) and normalized again
C2_Witness ==
    /\ pc = "normalized"
    /\ NormEntryCount(normalized) = 1 /\ NormEntryCount(data) = 2
    /\ Len(Chats(Categorized(normalized)[1])) = 1
    /\ \E j \in 1..2 : IsDict(Categorized(data)[j])
                       /\ IsList(Get(Categorized(data)[j], "chats", Null))
                       /\ Len(Categorized(data)[j].o["chats"].l) = 2

NormMustFail(d) == ~IsDict(d) \/ ~IsList(Get(d, "categorized", Null))

\* C3: normalize fails only when the top-level value is no object or has no
\* categorized array; for every other argument it returns a well-formed
\* draft (integer ids, chat_ids unique per folder entry) that passes
\* validate_groups_json
C3_NormalizeTotal ==
    pc # "normalize" =>
        IF NormMustFail(data) THEN normalized.k = "raise"
        ELSE /\ normalized.k = "obj"
             /\ WellFormedDraft(normalized)
             /\ validate_groups_json(normalized).ok

-----------------------------------------------------------------------------
(* Python equality of dict / set keys: 1, 1.0 and True are one key, "1" is
   another *)
PyKey(v) ==
    CASE v.k = "int" -> [t |-> "num", n |-> v.i, f |-> 0]
      [] v.k = "bool" -> [t |-> "num", n |-> IF v.b THEN 1 ELSE 0, f |-> 0]
      [] v.k = "float" -> [t |-> "num", n |-> v.tr, f |-> v.fr]
      [] v.k = "str" -> [t |-> "str", s |-> v.s]
      [] OTHER -> [t |-> "none"]
IntKey(i) == [t |-> "num", n |-> i, f |-> 0]

-----------------------------------------------------------------------------
(* classification.merge_categorization_results *)

\* mutant of AlreadyAssigned: the global set is never consulted
AlreadyAssignedNever(chat_id, assigned_global) == FALSE

\* `if chat_id in assigned_global`
AlreadyAssigned(chat_id, assigned_global) == PyKey(chat_id) \in assigned_global

\* mutant of MergedIndex: no folder_id is ever among the keys of merged_folders
MergedIndexNever(merged_folders, folder_id) == 0

\* position of folder_id among the keys of merged_folders, 0 when absent
MergedIndex(merged_folders, folder_id) ==
    IF \E i \in 1..Len(merged_folders) :
            PyKey(merged_folders[i].o["folder_id"]) = PyKey(folder_id)
    THEN CHOOSE i \in 1..Len(merged_folders) :
            PyKey(merged_folders[i].o["folder_id"]) = PyKey(folder_id)
    ELSE 0

\* folder_item.get("folder_title") or folder_lookup.get(folder_id, "Unknown")
MergeTitle(folder_item, folder_lookup) ==
    LET t == Get(folder_item, "folder_title", Null)
        fid == Get(folder_item, "folder_id", Null)
    IN  IF t.k = "str" /\ t.s # <<>> THEN t
        ELSE IF fid.k = "int" /\ fid.i \in DOMAIN folder_lookup
        THEN Str(folder_lookup[fid.i])
        ELSE Str(<<"U", "n", "k", "n", "o", "w", "n">>)

\* state of the merge loops: the ordered buckets and the global set
RECURSIVE MergeChats(_, _, _)
MergeChats(chats, idx, st) ==
    IF chats = <<>> THEN st
    ELSE
        LET chat_item == Head(chats)
            chat_id == Get(chat_item, "chat_id", Null)
        IN  IF AlreadyAssigned(chat_id, st.assigned_global)
            THEN MergeChats(Tail(chats), idx, st)
            ELSE MergeChats(Tail(chats), idx,
                    [merged_folders |->
                        [st.merged_folders EXCEPT ![idx] =
                            Obj([@.o EXCEPT !["chats"] = List(Append(@.l, chat_item))])],
                     assigned_global |-> st.assigned_global \cup {PyKey(chat_id)}])

RECURSIVE MergeFolderItems(_, _, _)
MergeFolderItems(items, folder_lookup, st) ==
    IF items = <<>> THEN st
    ELSE
        LET folder_item == Head(items)
            folder_id == Get(folder_item, "folder_id", Null)
            known == MergedIndex(st.merged_folders, folder_id)
            buckets ==
                IF known # 0 THEN st.merged_folders
                ELSE Append(st.merged_folders,
                        Obj([folder_id |-> folder_id,
                             folder_title |-> MergeTitle(folder_item, folder_lookup),
                             chats |-> List(<<>>)]))
            idx == IF known # 0 THEN known ELSE Len(buckets)
        IN  MergeFolderItems(Tail(items), folder_lookup,
                MergeChats(Get(folder_item, "chats", List(<<>>)).l, idx,
                    [merged_folders |-> buckets,
                     assigned_global |-> st.assigned_global]))

RECURSIVE MergeResults(_, _, _)
MergeResults(results_, folder_lookup, st) ==
    IF results_ = <<>> THEN st
    ELSE MergeResults(Tail(results_), folder_lookup,
            MergeFolderItems(Get(Head(results_), "categorized", List(<<>>)).l,
                             folder_lookup, st))

merge_categorization_results(results_, folder_lookup) ==
    Obj([categorized |->
        List(MergeResults(results_, folder_lookup,
                [merged_folders |-> <<>>, assigned_global |-> {}]).merged_folders)])

-----------------------------------------------------------------------------
(* Batch results given to the merger: drafts returned by the AI client,
   which are always normalized *)
NormChat(id) == Obj([chat_id |-> Int_(id), type |-> Str(UNKNOWN), reason |-> Str(<<>>)])
FolderItem(fid, title, ids) ==
    Obj([folder_id |-> Int_(fid), folder_title |-> Str(title),
         chats |-> List([i \in 1..Len(ids) |-> NormChat(ids[i])])])
Draft(items) == Obj([categorized |-> List(items)])

MergeFolderLookup == [f \in {1} |-> <<"A">>]
\* folder entries of the batch results: one chat under two folders, a title
\* supplied by the batch, and a folder the lookup does not know
MergeItems ==
    {FolderItem(1, <<>>, <<1, 2>>), FolderItem(2, <<"T">>, <<2, 3>>),
     FolderItem(3, <<>>, <<>>)}
MergeBatches == {Draft(items) : items \in SeqsUpTo(MergeItems, MergeMaxFolders)}

(* Specification SpecMerge *)
MergeInit ==
    /\ pc = "merge"
    /\ results \in SeqsUpTo(MergeBatches, MergeMaxBatches)
    /\ merged = Null
    /\ MergeRestIdle

Merge ==
    /\ pc = "merge"
    /\ merged' = merge_categorization_results(results, MergeFolderLookup)
    /\ pc' = "merged"
    /\ UNCHANGED results
    /\ UNCHANGED MergeRest

MergeNext == Merge
SpecMerge == MergeInit /\ [][MergeNext]_vars

-----------------------------------------------------------------------------
(* Claims about the merger *)

\* every (folder_id, chat_id) a draft holds, in document order
PairsOfItem(folder_item) ==
    [j \in 1..Len(Chats(folder_item)) |->
        [folder |-> FolderId(folder_item), chat |-> ChatId(Chats(folder_item)[j])]]
RECURSIVE PairsOfItems(_)
PairsOfItems(items) ==
    IF items = <<>> THEN <<>>
    ELSE PairsOfItem(Head(items)) \o PairsOfItems(Tail(items))
DraftPairs(d) == PairsOfItems(Categorized(d))
RECURSIVE ResultsPairs(_)
ResultsPairs(rs) ==
    IF rs = <<>> THEN <<>> ELSE DraftPairs(Head(rs)) \o ResultsPairs(Tail(rs))

\* C1: in the merged draft no chat_id occurs twice, in one FolderAssignment
\* or in two, and every chat is in the folder of its first occurrence in
\* batch order
C1_MergeFirstWins ==
    pc = "merged" =>
        LET out == DraftPairs(merged)
            inp == ResultsPairs(results)
        IN  /\ \A i, j \in 1..Len(out) : out[i].chat = out[j].chat => i = j
            /\ \A i \in 1..Len(out) :
                \E n \in 1..Len(inp) :
                    /\ inp[n] = out[i]
                    /\ \A m \in 1..(n - 1) : inp[m].chat # out[i].chat

\* C1 witness: two batches assigned one chat to different folders, and a
\* folder of one batch repeated a chat of another folder, before the merge
C1_Witness ==
    /\ pc = "merged"
    /\ Len(results) = 2
    /\ \E a \in 1..Len(DraftPairs(results[1])), b \in 1..Len(DraftPairs(results[2])) :
        /\ DraftPairs(results[1])[a].chat = DraftPairs(results[2])[b].chat
        /\ DraftPairs(results[1])[a].folder # DraftPairs(results[2])[b].folder
    /\ \E a, b \in 1..Len(DraftPairs(results[1])) :
        /\ a # b
        /\ DraftPairs(results[1])[a].chat = DraftPairs(results[1])[b].chat

-----------------------------------------------------------------------------
(* classification.validate_reference_integrity : the list of messages, each
   kept as <<what, i, j, id>> *)

\* `x in ids` for a set of integers
InIds(x, ids) == PyKey(x) \in {IntKey(i) : i \in ids}

\* mutant of SeenBefore: no chat_id is ever found in seen_chat_ids
SeenBeforeNever(chat_id, seen_chat_ids) == FALSE

\* mutant of SeenBefore: every occurrence counts as a repetition
SeenBeforeAlways(chat_id, seen_chat_ids) == TRUE

\* `if chat_id in seen_chat_ids`
SeenBefore(chat_id, seen_chat_ids) == PyKey(chat_id) \in seen_chat_ids

RECURSIVE RefChats(_, _, _, _, _)
RefChats(chats, i, j, valid_chat_ids, st) ==
    IF j > Len(chats) THEN st
    ELSE
        LET chat_id == Get(chats[j], "chat_id", Null)
            e1 == IF ~InIds(chat_id, valid_chat_ids)
                  THEN Append(st.errors, <<"chat_id unknown", i - 1, j - 1, chat_id>>)
                  ELSE st.errors
            e2 == IF SeenBefore(chat_id, st.seen_chat_ids)
                  THEN Append(e1, <<"chat_id repeated", 0, 0, chat_id>>)
                  ELSE e1
        IN  RefChats(chats, i, j + 1, valid_chat_ids,
                [errors |-> e2, seen_chat_ids |-> st.seen_chat_ids \cup {PyKey(chat_id)}])

\* mutant of RefFolders: the folder_id of an entry is not looked up
RECURSIVE RefFoldersChatsOnly(_, _, _, _, _)
RefFoldersChatsOnly(categorized, i, valid_folder_ids, valid_chat_ids, st) ==
    IF i > Len(categorized) THEN st
    ELSE RefFoldersChatsOnly(categorized, i + 1, valid_folder_ids, valid_chat_ids,
            RefChats(Get(categorized[i], "chats", List(<<>>)).l, i, 1, valid_chat_ids,
                [errors |-> st.errors, seen_chat_ids |-> st.seen_chat_ids]))

RECURSIVE RefFolders(_, _, _, _, _)
RefFolders(categorized, i, valid_folder_ids, valid_chat_ids, st) ==
    IF i > Len(categorized) THEN st
    ELSE
        LET folder_item == categorized[i]
            folder_id == Get(folder_item, "folder_id", Null)
            e1 == IF ~InIds(folder_id, valid_folder_ids)
                  THEN Append(st.errors, <<"folder_id unknown", i - 1, 0, folder_id>>)
                  ELSE st.errors
        IN  RefFolders(categorized, i + 1, valid_folder_ids, valid_chat_ids,
                RefChats(Get(folder_item, "chats", List(<<>>)).l, i, 1, valid_chat_ids,
                    [errors |-> e1, seen_chat_ids |-> st.seen_chat_ids]))

validate_reference_integrity(d, valid_folder_ids, valid_chat_ids) ==
    RefFolders(Get(d, "categorized", List(<<>>)).l, 1, valid_folder_ids, valid_chat_ids,
        [errors |-> <<>>, seen_chat_ids |-> {}]).errors

-----------------------------------------------------------------------------
(* Drafts given to the reference check: they passed validate_groups_json *)
ValidFolderIds == {1, 2}
ValidChatIds == {10, 11}

IdChat(id) == Obj([chat_id |-> id, type |-> Str(UNKNOWN), reason |-> Str(<<>>)])
IdItem(fid, ids) ==
    Obj([folder_id |-> fid, folder_title |-> Str(<<"T">>),
         chats |-> List([i \in 1..Len(ids) |-> IdChat(ids[i])])])

RefChatLists ==
    SeqsUpTo({Int_(10), Int_(11)}, RefMaxChats)
    \cup {<<Int_(99)>>, <<Str(<<"1", "0">>)>>, <<Int_(10), FloatFin(10, 0)>>}
RefItems ==
    {IdItem(f, ids) : f \in {Int_(1), Int_(9)}, ids \in RefChatLists}
    \cup {IdItem(Int_(2), <<Int_(11)>>), IdItem(Str(<<"1">>), <<>>)}
RefDrafts == {Draft(items) : items \in SeqsUpTo(RefItems, RefMaxFolders)}

(* Specification SpecRefs *)
RefsInit ==
    /\ pc = "validate"
    /\ refData \in RefDrafts
    /\ errors = <<>>
    /\ RefsRestIdle

ValidateReferences ==
    /\ pc = "validate"
    /\ validate_groups_json(refData).ok
    /\ errors' = validate_reference_integrity(refData, ValidFolderIds, ValidChatIds)
    /\ pc' = "validated"
    /\ UNCHANGED refData
    /\ UNCHANGED RefsRest

RefsNext == ValidateReferences
SpecRefs == RefsInit /\ [][RefsNext]_vars

-----------------------------------------------------------------------------
(* Claims about the reference check *)

FoldersKnown(d, fids) ==
    \A i \in 1..Len(Categorized(d)) : InIds(FolderId(Categorized(d)[i]), fids)
ChatsKnown(d, cids) ==
    \A n \in 1..Len(DraftPairs(d)) : InIds(DraftPairs(d)[n].chat, cids)
\* positions (entry, chat) of the chat assignments of a draft
ChatPositions(d) ==
    UNION {{<<i, j>> : j \in 1..Len(Chats(Categorized(d)[i]))} :
                i \in 1..Len(Categorized(d))}
ChatAt(d, p) == ChatId(Chats(Categorized(d)[p[1]])[p[2]])
Earlier(p, q) == p[1] < q[1] \/ (p[1] = q[1] /\ p[2] < q[2])
\* one chat_id under two different FolderAssignments
InTwoAssignments(d) ==
    \E p, q \in ChatPositions(d) :
        p[1] # q[1] /\ PyKey(ChatAt(d, p)) = PyKey(ChatAt(d, q))
\* one chat_id at two places, in one FolderAssignment or in two
OccursTwice(d) ==
    \E p, q \in ChatPositions(d) :
        p # q /\ PyKey(ChatAt(d, p)) = PyKey(ChatAt(d, q))

\* C4 as stated: the result is empty if and only if every folder_id and
\* C16: in a normalised draft the reason of every chat assignment is a
\* string, never null, of at most 200 characters, whatever the length of the
\* reason in the input.
C16_ReasonAtMost200 ==
    IsDict(normalized) =>
        \A p \in ChatPositions(normalized) :
            LET reason == Get(Chats(Categorized(normalized)[p[1]])[p[2]], "reason", Null)
            IN  reason.k = "str" /\ Len(reason.s) <= 200

\* every chat_id is known and no chat_id is in more than one FolderAssignment
C4_EmptyIffConsistent ==
    pc = "validated" =>
        (errors = <<>> <=>
            /\ FoldersKnown(refData, ValidFolderIds)
            /\ ChatsKnown(refData, ValidChatIds)
            /\ ~InTwoAssignments(refData))

\* C4 amended: the result is empty if and only if every folder_id and every
\* chat_id is known and no chat_id occurs twice anywhere in the draft (in
\* two FolderAssignments or twice in one); and the result holds one message
\* per unknown folder_id, one per unknown chat_id occurrence and one per
\* repeated occurrence of a chat_id - all of them, not only the first
C4_EmptyIffNoRepeat ==
    pc = "validated" =>
        /\ errors = <<>> <=>
            /\ FoldersKnown(refData, ValidFolderIds)
            /\ ChatsKnown(refData, ValidChatIds)
            /\ ~OccursTwice(refData)
        /\ Len(errors) =
              Cardinality({i \in 1..Len(Categorized(refData)) :
                    ~InIds(FolderId(Categorized(refData)[i]), ValidFolderIds)})
            + Cardinality({p \in ChatPositions(refData) :
                    ~InIds(ChatAt(refData, p), ValidChatIds)})
            + Cardinality({p \in ChatPositions(refData) :
                    \E q \in ChatPositions(refData) :
                        Earlier(q, p) /\ PyKey(ChatAt(refData, q)) = PyKey(ChatAt(refData, p))})

\* C4 witness: a draft with several violations (an unknown folder_id and a
\* chat_id repeated inside one FolderAssignment) was checked and every one
\* of them was reported
C4_Witness ==
    /\ pc = "validated"
    /\ Len(errors) >= 3
    /\ ~InTwoAssignments(refData)
    /\ OccursTwice(refData)
    /\ ~FoldersKnown(refData, ValidFolderIds)

\* C20: for a chat_id that occurs k times in the draft, the reference check
\* reports exactly k - 1 duplicate messages for it: one for each occurrence
\* after the first and none for the first.
C20_DuplicatesReportedKMinusOne ==
    pc = "validated" =>
        \A p \in ChatPositions(refData) :
            Cardinality({n \in 1..Len(errors) :
                    /\ errors[n][1] = "chat_id repeated"
                    /\ PyKey(errors[n][4]) = PyKey(ChatAt(refData, p))})
            = Cardinality({q \in ChatPositions(refData) :
                    PyKey(ChatAt(refData, q)) = PyKey(ChatAt(refData, p))}) - 1

\* a chat_id that occurs three times, under two folder entries, was reported
\* twice, and a chat_id that occurs once was not reported
C20_Witness ==
    /\ pc = "validated"
    /\ \E p \in ChatPositions(refData) :
            Cardinality({q \in ChatPositions(refData) :
                PyKey(ChatAt(refData, q)) = PyKey(ChatAt(refData, p))}) = 3
    /\ \E p \in ChatPositions(refData) :
            Cardinality({q \in ChatPositions(refData) :
                PyKey(ChatAt(refData, q)) = PyKey(ChatAt(refData, p))}) = 1
    /\ Cardinality({n \in 1..Len(errors) : errors[n][1] = "chat_id repeated"}) = 2

-----------------------------------------------------------------------------
(* CSV bridge.  A review file is [k |-> "file", fieldnames, rows]: the header
   and, per line, the dict csv.DictReader yields (a column the line does not
   reach is None); a path that does not exist is [k |-> "nofile"] *)
NoFile == [k |-> "nofile"]
CsvFile(fieldnames, rows) == [k |-> "file", fieldnames |-> fieldnames, rows |-> rows]
CsvHeader ==
    <<"status", "folder_id", "folder_title", "chat_id", "chat_title", "chat_type",
      "username", "reason">>
Range(q) == {q[i] : i \in 1..Len(q)}

\* csv.writer: None is written as the empty cell, everything else as str()
CsvCell(v) == IF v.k = "null" THEN Str(<<>>) ELSE Str(PyStr(v))

UpperChars == <<"A", "B", "C", "D", "E", "F", "G", "H", "I", "J", "K", "L", "M",
                "N", "O", "P", "Q", "R", "S", "T", "U", "V", "W", "X", "Y", "Z">>
LowerChars == <<"a", "b", "c", "d", "e", "f", "g", "h", "i", "j", "k", "l", "m",
                "n", "o", "p", "q", "r", "s", "t", "u", "v", "w", "x", "y", "z">>
LowerChar(c) ==
    IF \E n \in 1..26 : UpperChars[n] = c
    THEN LowerChars[CHOOSE n \in 1..26 : UpperChars[n] = c]
    ELSE c
Lower(s) == [n \in 1..Len(s) |-> LowerChar(s[n])]

CATEGORIZED == <<"c", "a", "t", "e", "g", "o", "r", "i", "z", "e", "d">>
UNASSIGNED == <<"u", "n", "a", "s", "s", "i", "g", "n", "e", "d">>
CsvReasonMarker == <<"C", "S", "V", " ", "r", "e", "v", "i", "e", "w">>

\* chat_lookup = {int(chat["chat_id"]): chat ...}.get(chat_id, {})
RECURSIVE LookupChat(_, _)
LookupChat(chats_for_ai, chat_id) ==
    IF chats_for_ai = <<>> THEN Obj(EmptyRec)
    ELSE LET chat == chats_for_ai[Len(chats_for_ai)]
         IN  IF Get(chat, "chat_id", Null).k # "null"
                /\ IntCoerce(chat.o["chat_id"]).val = chat_id
             THEN chat
             ELSE LookupChat(SubSeq(chats_for_ai, 1, Len(chats_for_ai) - 1), chat_id)
ChatIdsOf(chats_for_ai) ==
    {IntCoerce(chats_for_ai[n].o["chat_id"]).val :
        n \in {m \in 1..Len(chats_for_ai) : Get(chats_for_ai[m], "chat_id", Null).k # "null"}}

(* classification.export_classification_review_csv *)

\* mutant of ExportRow: folder_id and folder_title are written to each
\* other's column
ExportRowSwapped(folder_item, chat_item, chat_id, chat) ==
    Obj([status |-> Str(CATEGORIZED),
         folder_id |-> CsvCell(Get(folder_item, "folder_title", Str(<<>>))),
         folder_title |-> CsvCell(Get(folder_item, "folder_id", Null)),
         chat_id |-> Str(IntToStr(chat_id)),
         chat_title |-> CsvCell(Get(chat, "title", Str(<<>>))),
         chat_type |-> CsvCell(Get(chat_item, "type", Get(chat, "type", Str(<<>>)))),
         username |-> CsvCell(Get(chat, "username", Str(<<>>))),
         reason |-> CsvCell(Get(chat_item, "reason", Str(<<>>)))])

\* the row written for one chat assignment
ExportRow(folder_item, chat_item, chat_id, chat) ==
    Obj([status |-> Str(CATEGORIZED),
         folder_id |-> CsvCell(Get(folder_item, "folder_id", Null)),
         folder_title |-> CsvCell(Get(folder_item, "folder_title", Str(<<>>))),
         chat_id |-> Str(IntToStr(chat_id)),
         chat_title |-> CsvCell(Get(chat, "title", Str(<<>>))),
         chat_type |-> CsvCell(Get(chat_item, "type", Get(chat, "type", Str(<<>>)))),
         username |-> CsvCell(Get(chat, "username", Str(<<>>))),
         reason |-> CsvCell(Get(chat_item, "reason", Str(<<>>)))])

\* the row written for a chat of the snapshot that no assignment holds
ExportUnassignedRow(chat, chat_id) ==
    Obj([status |-> Str(UNASSIGNED),
         folder_id |-> Str(<<>>),
         folder_title |-> Str(<<>>),
         chat_id |-> Str(IntToStr(chat_id)),
         chat_title |-> CsvCell(Get(chat, "title", Str(<<>>))),
         chat_type |-> CsvCell(Get(chat, "type", Str(<<>>))),
         username |-> CsvCell(Get(chat, "username", Str(<<>>))),
         reason |-> Str(<<>>)])

\* state of the export loops: rows written so far, assigned_ids, and the
\* exception that ended the call, if any
RECURSIVE ExportChats(_, _, _, _)
ExportChats(folder_item, chats, chats_for_ai, st) ==
    IF chats = <<>> \/ st.r # "ok" THEN st
    ELSE
        LET chat_item == Head(chats)
            c == IntCoerce(Get(chat_item, "chat_id", Null))
        IN  IF c.r # "ok" THEN [st EXCEPT !.r = c.r]
            ELSE ExportChats(folder_item, Tail(chats), chats_for_ai,
                    [r |-> "ok",
                     rows |-> Append(st.rows,
                        ExportRow(folder_item, chat_item, c.val,
                                  LookupChat(chats_for_ai, c.val))),
                     assigned_ids |-> st.assigned_ids \cup {c.val}])

RECURSIVE ExportFolders(_, _, _)
ExportFolders(categorized, chats_for_ai, st) ==
    IF categorized = <<>> \/ st.r # "ok" THEN st
    ELSE ExportFolders(Tail(categorized), chats_for_ai,
            ExportChats(Head(categorized),
                        Get(Head(categorized), "chats", List(<<>>)).l,
                        chats_for_ai, st))

\* mutant of ExportUnassigned: assigned_ids is not consulted
ExportUnassignedAll(chats_, st) ==
    [st EXCEPT !.rows = @ \o [n \in 1..Len(chats_) |->
        ExportUnassignedRow(chats_[n], IntCoerce(chats_[n].o["chat_id"]).val)]]

RECURSIVE ExportUnassigned(_, _)
ExportUnassigned(chats_, st) ==
    IF chats_ = <<>> THEN st
    ELSE
        LET chat == Head(chats_)
            chat_id == IntCoerce(chat.o["chat_id"]).val
        IN  IF chat_id \in st.assigned_ids THEN ExportUnassigned(Tail(chats_), st)
            ELSE ExportUnassigned(Tail(chats_),
                    [st EXCEPT !.rows = Append(@, ExportUnassignedRow(chat, chat_id))])

export_classification_review_csv(categorized_data, chats_for_ai) ==
    LET st == ExportFolders(Get(categorized_data, "categorized", List(<<>>)).l,
                chats_for_ai, [r |-> "ok", rows |-> <<>>, assigned_ids |-> {}])
    IN  IF st.r # "ok" THEN Raise(st.r)
        ELSE CsvFile(CsvHeader, ExportUnassigned(chats_for_ai, st).rows)

(* classification.build_categorization_from_review_csv *)

\* mutant of RowStatus: the status is compared without lower()
RowStatusCaseSensitive(row) == Strip(PyStr(Get(row, "status", Str(<<>>))))

\* str(row.get("status", "")).strip().lower()
RowStatus(row) == Lower(Strip(PyStr(Get(row, "status", Str(<<>>)))))

\* int(str(row.get(column, "")).strip())
RowInt(row, column) == ParseInt(Strip(PyStr(Get(row, column, Str(<<>>)))))

\* `x.strip() or default`
StripOr(v, default) == IF Strip(PyStr(v)) # <<>> THEN Strip(PyStr(v)) ELSE default

FolderTitles(folders_) ==
    [f \in {folders_[n].id : n \in 1..Len(folders_)} |->
        folders_[CHOOSE n \in 1..Len(folders_) :
            /\ folders_[n].id = f
            /\ \A m \in (n + 1)..Len(folders_) : folders_[m].id # f].title]

\* mutant of CsvIndex: no folder_id is ever found in categorized_map
CsvIndexNever(categorized_map, folder_id) == 0

CsvIndex(categorized_map, folder_id) ==
    IF \E i \in 1..Len(categorized_map) : categorized_map[i].o["folder_id"].i = folder_id
    THEN CHOOSE i \in 1..Len(categorized_map) : categorized_map[i].o["folder_id"].i = folder_id
    ELSE 0

RECURSIVE BuildRows(_, _, _, _)
BuildRows(rows, folder_lookup, chats_for_ai, st) ==
    IF rows = <<>> THEN st
    ELSE
        LET row == Head(rows)
            rest == Tail(rows)
            f == RowInt(row, "folder_id")
            c == RowInt(row, "chat_id")
        IN  IF RowStatus(row) # CATEGORIZED
            THEN BuildRows(rest, folder_lookup, chats_for_ai, st)
            ELSE IF f.r # "ok" \/ c.r # "ok"
            THEN BuildRows(rest, folder_lookup, chats_for_ai, st)
            ELSE IF f.val \notin DOMAIN folder_lookup
            THEN BuildRows(rest, folder_lookup, chats_for_ai, st)
            ELSE IF c.val \notin ChatIdsOf(chats_for_ai)
            THEN BuildRows(rest, folder_lookup, chats_for_ai, st)
            ELSE IF c.val \in st.seen_chat_ids
            THEN BuildRows(rest, folder_lookup, chats_for_ai, st)
            ELSE
                LET chat == LookupChat(chats_for_ai, c.val)
                    entry == Obj([
                        chat_id |-> Int_(c.val),
                        type |-> Str(StripOr(Get(row, "chat_type", Str(<<>>)),
                                        PyStr(Get(chat, "type", Str(UNKNOWN))))),
                        reason |-> Str(StripOr(Get(row, "reason", Str(<<>>)),
                                        CsvReasonMarker))])
                    known == CsvIndex(st.categorized_map, f.val)
                    buckets ==
                        IF known # 0 THEN st.categorized_map
                        ELSE Append(st.categorized_map,
                                Obj([folder_id |-> Int_(f.val),
                                     folder_title |-> Str(folder_lookup[f.val]),
                                     chats |-> List(<<>>)]))
                    idx == IF known # 0 THEN known ELSE Len(buckets)
                IN  BuildRows(rest, folder_lookup, chats_for_ai,
                        [seen_chat_ids |-> st.seen_chat_ids \cup {c.val},
                         categorized_map |->
                            [buckets EXCEPT ![idx] =
                                Obj([@.o EXCEPT !["chats"] = List(Append(@.l, entry))])]])

build_categorization_from_review_csv(csv_file, folders_, chats_for_ai) ==
    IF csv_file.k = "nofile" THEN Raise("ValueError")
    ELSE IF csv_file.fieldnames = <<>>
            \/ ~({"status", "folder_id", "chat_id"} \subseteq Range(csv_file.fieldnames))
    THEN Raise("ValueError")
    ELSE Obj([categorized |->
            List(BuildRows(csv_file.rows, FolderTitles(folders_), chats_for_ai,
                    [seen_chat_ids |-> {}, categorized_map |-> <<>>]).categorized_map)])

-----------------------------------------------------------------------------
(* Folders, chat snapshot, drafts and review files given to the CSV bridge *)
CsvFolders == <<[id |-> 1, title |-> <<"A">>], [id |-> 2, title |-> <<"B">>]>>
SnapChat(id) ==
    Obj([chat_id |-> Int_(id), title |-> Str(<<"t">>), type |-> Str(<<"G">>),
         username |-> Str(<<>>)])
CsvSnapshots == {<<SnapChat(10)>>, <<SnapChat(10), SnapChat(11)>>}

\* drafts that are exported: normalized, some with an empty FolderAssignment,
\* a repeated folder_id, an unknown folder_id or an unknown chat_id
CsvItems ==
    {FolderItem(1, <<"A">>, <<>>), FolderItem(1, <<"A">>, <<10>>),
     FolderItem(1, <<>>, <<11>>), FolderItem(2, <<"B">>, <<11, 10>>),
     FolderItem(2, <<"B">>, <<10>>), FolderItem(9, <<>>, <<10>>),
     FolderItem(2, <<>>, <<99>>)}
CsvDrafts == {Draft(items) : items \in SeqsUpTo(CsvItems, CsvMaxFolders)}

Row(status, folder_id, chat_id) ==
    Obj([status |-> status, folder_id |-> folder_id, folder_title |-> Str(<<>>),
         chat_id |-> chat_id, chat_title |-> Str(<<>>), chat_type |-> Str(<<>>),
         username |-> Str(<<>>), reason |-> Str(<<>>)])
\* lines of a review file after a human edited it
CsvRows ==
    {Row(Str(CATEGORIZED), Str(<<"1">>), Str(<<"1", "0">>)),
     Row(Str(CATEGORIZED), Str(<<"2">>), Str(<<"1", "0">>)),
     Row(Str(CATEGORIZED), Str(<<"2">>), Str(<<"1", "1">>)),
     Row(Str(<<" ", "C", "a", "t", "e", "g", "o", "r", "i", "z", "e", "d">>),
         Str(<<" ", "1", " ">>), Str(<<"+", "1", "1">>)),
     Row(Str(UNASSIGNED), Str(<<>>), Str(<<"1", "1">>)),
     Row(Str(CATEGORIZED), Str(<<"x">>), Str(<<"1", "1">>)),
     Row(Str(CATEGORIZED), Str(<<"9">>), Str(<<"1", "1">>)),
     Row(Str(CATEGORIZED), Str(<<"1">>), Str(<<"9", "9">>)),
     Row(Str(CATEGORIZED), Str(<<"1">>), Null),
     Obj([status |-> Str(CATEGORIZED), folder_id |-> Str(<<"2">>),
          folder_title |-> Str(<<>>), chat_id |-> Str(<<"1", "1">>),
          chat_title |-> Str(<<>>), chat_type |-> Str(<<"C">>),
          username |-> Str(<<>>), reason |-> Str(<<"r">>)])}
CsvHeaders ==
    {CsvHeader, <<>>,
     <<"status", "folder_id", "chat_id">>,
     <<"folder_id", "folder_title", "chat_id", "reason">>,
     <<"status", "chat_id", "chat_type">>,
     <<"chat_id", "status", "folder_id", "reason">>}
\* a line holds the columns of the header only
RestrictRow(row, fieldnames) ==
    Obj([c \in DOMAIN row.o \cap Range(fieldnames) |-> row.o[c]])
EditedFiles ==
    {NoFile} \cup
    {CsvFile(h, [n \in 1..Len(rows) |-> RestrictRow(rows[n], h)]) :
        h \in CsvHeaders, rows \in SeqsUpTo(CsvRows, CsvMaxRows)}

(* Specification SpecCsv: a draft is exported and the file rebuilt, or a file
   somebody edited is rebuilt *)
CsvInit ==
    /\ csvChats \in CsvSnapshots
    /\ rebuilt = Null
    /\ \/ pc = "export" /\ csvDraft \in CsvDrafts /\ csvFile = NoFile
       \/ pc = "edited" /\ csvDraft = Null /\ csvFile \in EditedFiles
    /\ CsvRestIdle

Export ==
    /\ pc = "export"
    /\ LET f == export_classification_review_csv(csvDraft, csvChats)
       IN  /\ csvFile' = IF f.k = "raise" THEN csvFile ELSE f
           /\ pc' = IF f.k = "raise" THEN "export_raised" ELSE "exported"
    /\ UNCHANGED <<csvDraft, csvChats, rebuilt>>
    /\ UNCHANGED CsvRest

Rebuild ==
    /\ pc \in {"exported", "edited"}
    /\ rebuilt' = build_categorization_from_review_csv(csvFile, CsvFolders, csvChats)
    /\ pc' = IF pc = "exported" THEN "round_trip" ELSE "rebuilt"
    /\ UNCHANGED <<csvDraft, csvChats, csvFile>>
    /\ UNCHANGED CsvRest

CsvNext == Export \/ Rebuild
SpecCsv == CsvInit /\ [][CsvNext]_vars

-----------------------------------------------------------------------------
(* Claims about the CSV bridge *)

FolderIdsOf(folders_) == {folders_[n].id : n \in 1..Len(folders_)}
\* the draft as {folder_id: set of chat_ids}, one key per folder_id it names
FolderMapping(d) ==
    [f \in {FolderId(Categorized(d)[i]).i : i \in 1..Len(Categorized(d))} |->
        {DraftPairs(d)[n].chat.i :
            n \in {m \in 1..Len(DraftPairs(d)) : DraftPairs(d)[m].folder.i = f}}]
\* the same, for the folders that hold at least one chat
NonEmptyFolderMapping(d) ==
    [f \in {g \in DOMAIN FolderMapping(d) : FolderMapping(d)[g] # {}} |->
        FolderMapping(d)[f]]
\* already valid (known ids, no chat_id twice) and no chat of the snapshot
\* left unassigned
ValidFullyAssigned(d, folders_, chats_) ==
    /\ WellFormedDraft(d)
    /\ validate_reference_integrity(d, FolderIdsOf(folders_), ChatIdsOf(chats_)) = <<>>
    /\ \A c \in ChatIdsOf(chats_) :
        \E n \in 1..Len(DraftPairs(d)) : DraftPairs(d)[n].chat.i = c

\* C5 as stated: export then rebuild of a valid, fully-assigned draft - also
\* one holding a FolderAssignment with no chats - yields the same
\* folder_id -> set of chat_ids mapping
C5_RoundTripSameMapping ==
    (pc = "round_trip" /\ ValidFullyAssigned(csvDraft, CsvFolders, csvChats)) =>
        /\ rebuilt.k = "obj"
        /\ FolderMapping(rebuilt) = FolderMapping(csvDraft)

\* C5 amended: export then rebuild of a valid, fully-assigned draft yields a
\* draft with the same folder_id -> set of chat_ids mapping over the folders
\* that hold at least one chat; a FolderAssignment with no chats has no
\* entry in the rebuilt draft
C5_RoundTripNonEmptyMapping ==
    (pc = "round_trip" /\ ValidFullyAssigned(csvDraft, CsvFolders, csvChats)) =>
        /\ rebuilt.k = "obj"
        /\ FolderMapping(rebuilt) = NonEmptyFolderMapping(csvDraft)

\* C5 witness: a valid, fully-assigned draft with two entries for one
\* folder_id and chats in two folders went through export and rebuild
C5_Witness ==
    /\ pc = "round_trip"
    /\ ValidFullyAssigned(csvDraft, CsvFolders, csvChats)
    /\ Len(csvChats) = 2
    /\ Len(Categorized(csvDraft)) = 2
    /\ FolderId(Categorized(csvDraft)[1]) = FolderId(Categorized(csvDraft)[2])
    /\ Len(Chats(Categorized(csvDraft)[1])) = 1
    /\ Len(Chats(Categorized(csvDraft)[2])) = 1
    /\ Len(Categorized(rebuilt)) = 1

\* what the claim calls a consumable line: status categorized in any case,
\* integer ids, known folder, known chat
RowCell(row, column) == PyStr(Get(row, column, Str(<<>>)))
RowNamesKnown(row, folders_, chats_) ==
    /\ Lower(Strip(RowCell(row, "status"))) = CATEGORIZED
    /\ ParseInt(RowCell(row, "folder_id")).r = "ok"
    /\ ParseInt(RowCell(row, "chat_id")).r = "ok"
    /\ ParseInt(RowCell(row, "folder_id")).val \in FolderIdsOf(folders_)
    /\ ParseInt(RowCell(row, "chat_id")).val \in ChatIdsOf(chats_)
\* ... whose chat_id no earlier consumable line named
RowConsumed(rows, n, folders_, chats_) ==
    /\ RowNamesKnown(rows[n], folders_, chats_)
    /\ \A m \in 1..(n - 1) :
        RowNamesKnown(rows[m], folders_, chats_) =>
            ParseInt(RowCell(rows[m], "chat_id")).val
                # ParseInt(RowCell(rows[n], "chat_id")).val
RowFolder(rows, n) == ParseInt(RowCell(rows[n], "folder_id")).val
RowChat(rows, n) == ParseInt(RowCell(rows[n], "chat_id")).val

\* C6: without one of the columns status, folder_id, chat_id the rebuild
\* fails; otherwise the draft holds exactly the consumable lines: one
\* FolderAssignment per folder of a consumed line, in order of first
\* appearance, each with the chats of its consumed lines in file order
C6_RebuildConsumesRows ==
    (pc = "rebuilt" /\ csvFile.k = "file") =>
        IF ~({"status", "folder_id", "chat_id"} \subseteq Range(csvFile.fieldnames))
        THEN rebuilt.k = "raise"
        ELSE
            LET rows == csvFile.rows
                Q == {n \in 1..Len(rows) : RowConsumed(rows, n, CsvFolders, csvChats)}
                out == Categorized(rebuilt)
            IN  /\ rebuilt.k = "obj"
                /\ WellFormedDraft(rebuilt)
                /\ {FolderId(out[i]).i : i \in 1..Len(out)} = {RowFolder(rows, n) : n \in Q}
                /\ \A i, j \in 1..Len(out) :
                    /\ FolderId(out[i]) = FolderId(out[j]) => i = j
                    /\ i < j =>
                        \E n \in Q :
                            /\ RowFolder(rows, n) = FolderId(out[i]).i
                            /\ \A m \in Q : RowFolder(rows, m) = FolderId(out[j]).i => n < m
                /\ \A i \in 1..Len(out) :
                    LET mine == {n \in Q : RowFolder(rows, n) = FolderId(out[i]).i}
                    IN  /\ Len(Chats(out[i])) = Cardinality(mine)
                        /\ \A j \in 1..Len(Chats(out[i])) :
                            \E n \in mine :
                                /\ RowChat(rows, n) = ChatId(Chats(out[i])[j]).i
                                /\ Cardinality({m \in mine : m < n}) = j - 1

\* C6 witness: a file with the three columns was rebuilt; a line in another
\* case was consumed, a line naming a consumed chat_id and a line with a
\* non-integer id were skipped
C6_Witness ==
    /\ pc = "rebuilt" /\ csvFile.k = "file" /\ rebuilt.k = "obj"
    /\ Len(csvFile.rows) = 3
    /\ Len(DraftPairs(rebuilt)) = 1
    /\ RowCell(csvFile.rows[1], "status") # CATEGORIZED
    /\ RowConsumed(csvFile.rows, 1, CsvFolders, csvChats)
    /\ RowNamesKnown(csvFile.rows[2], CsvFolders, csvChats)
    /\ ParseInt(RowCell(csvFile.rows[3], "folder_id")).r # "ok"

-----------------------------------------------------------------------------
(* classification.compute_unassigned_chats *)

\* mutant of AssignedOfItem: the chats of the entry are not read
AssignedOfItemNone(folder_item) == {}

\* the chat_ids added to `assigned` for one folder entry
AssignedOfItem(folder_item) ==
    {PyKey(Get(chat_item, "chat_id", Null)) :
        chat_item \in Range(Get(folder_item, "chats", List(<<>>)).l)}

\* mutant of Assigned: only the first folder entry is read
AssignedFirstOnly(categorized_data) ==
    LET categorized == Get(categorized_data, "categorized", List(<<>>)).l
    IN  IF categorized = <<>> THEN {} ELSE AssignedOfItem(categorized[1])

\* the set `assigned` after the two loops
Assigned(categorized_data) ==
    UNION {AssignedOfItem(folder_item) :
        folder_item \in Range(Get(categorized_data, "categorized", List(<<>>)).l)}

\* [chat for chat in chats if chat.get("chat_id") not in assigned]
RECURSIVE KeepUnassigned(_, _)
KeepUnassigned(chats, assigned) ==
    IF chats = <<>> THEN <<>>
    ELSE IF PyKey(Get(Head(chats), "chat_id", Null)) \notin assigned
         THEN <<Head(chats)>> \o KeepUnassigned(Tail(chats), assigned)
         ELSE KeepUnassigned(Tail(chats), assigned)

\* mutant of compute_unassigned_chats: every chat of the snapshot
ComputeUnassignedAll(chats, categorized_data) == chats

compute_unassigned_chats(chats, categorized_data) ==
    KeepUnassigned(chats, Assigned(categorized_data))

(* Specification SpecUnassigned: compute_unassigned_chats is called on a chat
   snapshot and a draft *)
UnSnapshots == SeqsUpTo({SnapChat(10), SnapChat(11), SnapChat(12)}, UnMaxChats)
\* folder entries of the draft: chat 10 also as 10.0 (one key in Python) and
\* as the text "10" (another key)
UnItems ==
    {FolderItem(1, <<"A">>, <<>>), FolderItem(1, <<"A">>, <<10>>),
     FolderItem(2, <<"B">>, <<11, 10>>), FolderItem(2, <<"B">>, <<12>>),
     Obj([folder_id |-> Int_(1), folder_title |-> Str(<<"A">>),
          chats |-> List(<<ChatOf(FloatFin(10, 0))>>)]),
     Obj([folder_id |-> Int_(1), folder_title |-> Str(<<"A">>),
          chats |-> List(<<ChatOf(Str(<<"1", "0">>))>>)])}
UnDrafts == {Draft(items) : items \in SeqsUpTo(UnItems, UnMaxFolders)}

UnInit ==
    /\ pc = "compute"
    /\ unChats \in UnSnapshots
    /\ unDraft \in UnDrafts
    /\ unassigned = Null
    /\ UnRestIdle

ComputeUnassigned ==
    /\ pc = "compute"
    /\ unassigned' = compute_unassigned_chats(unChats, unDraft)
    /\ pc' = "computed"
    /\ UNCHANGED <<unChats, unDraft>>
    /\ UNCHANGED UnRest

UnNext == ComputeUnassigned
SpecUnassigned == UnInit /\ [][UnNext]_vars

-----------------------------------------------------------------------------
(* Claims about compute_unassigned_chats *)

\* the chat at position n of all_chats is in no FolderAssignment of the draft
InNoAssignment(chats, d, n) ==
    \A p \in ChatPositions(d) : PyKey(ChatAt(d, p)) # PyKey(ChatId(chats[n]))

\* C7: the value returned holds exactly the chats of all_chats whose chat_id
\* is in no FolderAssignment of the draft, in the order of all_chats, and the
\* call leaves all_chats and the draft as they were
C7_UnassignedIsComplement ==
    /\ [](pc = "computed" =>
            LET kept == {n \in 1..Len(unChats) : InNoAssignment(unChats, unDraft, n)}
            IN  /\ Len(unassigned) = Cardinality(kept)
                /\ \A k \in 1..Len(unassigned) :
                    \E n \in kept :
                        /\ unassigned[k] = unChats[n]
                        /\ Cardinality({m \in kept : m < n}) = k - 1)
    /\ [][unChats' = unChats /\ unDraft' = unDraft]_vars

\* C7 witness: of three chats the middle one is assigned, in the second
\* FolderAssignment, and the other two were returned in their order
C7_Witness ==
    /\ pc = "computed"
    /\ Len(unChats) = 3 /\ Len(unassigned) = 2
    /\ unassigned = <<unChats[1], unChats[3]>>
    /\ unChats[1] # unChats[3]
    /\ Len(Categorized(unDraft)) = 2
    /\ InNoAssignment(unChats, Draft(<<Categorized(unDraft)[1]>>), 2)

-----------------------------------------------------------------------------
(* cli_flow.prompt_text / prompt_yes_no.  A character outside ASCII is written
   as its code point, one element of the sequence *)

\* what prompt_text returns: None when the timeout expires, else the line
TimedOut == Null
Line(s) == Str(s)

\* mutant of YesSet: "n" is read as a yes
YesSetWithN ==
    {<<"y">>, <<"y", "e", "s">>, <<"U+662F">>, <<"U+786E", "U+8BA4">>, <<"1">>, <<"n">>}

YesSet == {<<"y">>, <<"y", "e", "s">>, <<"U+662F">>, <<"U+786E", "U+8BA4">>, <<"1">>}
NoSet == {<<"n">>, <<"n", "o">>, <<"U+5426">>, <<"U+53D6", "U+6D88">>, <<"0">>}

\* one turn of the `while True` loop of prompt_yes_no on the answer read:
\* the value returned, or Again when the prompt is repeated
Again == [k |-> "again"]
prompt_yes_no(answer, default) ==
    IF answer = TimedOut THEN Null
    ELSE LET normalized_ == Lower(Strip(answer.s))
         IN  IF normalized_ = <<>> /\ default # Null THEN default
             ELSE IF normalized_ \in YesSet THEN Bool(TRUE)
             ELSE IF normalized_ \in NoSet THEN Bool(FALSE)
             ELSE Again

(* classification.add_chat_assignment *)
\* mutant of TargetIndex: the first entry, whatever its folder_id
TargetIndexFirst(categorized, folder_id) ==
    IF categorized = <<>> THEN 0 ELSE 1

\* index of the first folder entry with the folder_id, 0 when there is none
TargetIndex(categorized, folder_id) ==
    IF \E i \in 1..Len(categorized) :
            PyKey(Get(categorized[i], "folder_id", Null)) = IntKey(folder_id)
    THEN CHOOSE i \in 1..Len(categorized) :
            /\ PyKey(Get(categorized[i], "folder_id", Null)) = IntKey(folder_id)
            /\ \A h \in 1..(i - 1) :
                PyKey(Get(categorized[h], "folder_id", Null)) # IntKey(folder_id)
    ELSE 0

\* mutant of add_chat_assignment: the search for a target is left out and a
\* new folder entry is appended every time
AddChatAssignmentAlwaysNew(categorized_data, folder_id, folder_title, chat, reason) ==
    LET categorized == Get(categorized_data, "categorized", List(<<>>)).l
        entry == Obj([chat_id |-> Int_(IntCoerce(chat.o["chat_id"]).val),
                      type |-> Str(PyStr(Get(chat, "type", Str(UNKNOWN)))),
                      reason |-> Str(reason)])
    IN  Obj([f \in DOMAIN categorized_data.o \cup {"categorized"} |->
            IF f = "categorized"
            THEN List(Append(categorized,
                    Obj([folder_id |-> Int_(folder_id), folder_title |-> Str(folder_title),
                         chats |-> List(<<entry>>)])))
            ELSE categorized_data.o[f]])

add_chat_assignment(categorized_data, folder_id, folder_title, chat, reason) ==
    LET categorized == Get(categorized_data, "categorized", List(<<>>)).l
        t == TargetIndex(categorized, folder_id)
        entry == Obj([chat_id |-> Int_(IntCoerce(chat.o["chat_id"]).val),
                      type |-> Str(PyStr(Get(chat, "type", Str(UNKNOWN)))),
                      reason |-> Str(reason)])
        withTarget ==
            IF t = 0
            THEN Append(categorized,
                    Obj([folder_id |-> Int_(folder_id), folder_title |-> Str(folder_title),
                         chats |-> List(<<>>)]))
            ELSE categorized
        at == IF t = 0 THEN Len(withTarget) ELSE t
        target == withTarget[at]
    IN  Obj([f \in DOMAIN categorized_data.o \cup {"categorized"} |->
            IF f = "categorized"
            THEN List([withTarget EXCEPT ![at] =
                    Obj([target.o EXCEPT !["chats"] = List(Append(target.o["chats"].l, entry))])])
            ELSE categorized_data.o[f]])

-----------------------------------------------------------------------------
(* The lifecycle controller of the wizard: load and validate the draft
   (retry loop), review the unassigned chats, load and validate again, then
   the two confirmation stages and the external mutation.  The validators,
   the prompt, the save and the resolver steps are those modelled above *)

NotAsked == [k |-> "not_asked"]
WizFolders == <<[id |-> 1, title |-> <<"A">>], [id |-> 2, title |-> <<"B">>]>>
WizChats == <<SnapChat(10), SnapChat(11)>>
\* reason recorded for a manual assignment
WizManualReason == <<"m", "a", "n", "u", "a", "l">>

\* draft files a human or the wizard leaves on disk: valid ones, an unknown
\* folder, a chat under two folders, and two shape errors
WizDrafts ==
    {Draft(<<FolderItem(1, <<"A">>, <<10>>)>>),
     Draft(<<FolderItem(1, <<"A">>, <<10>>), FolderItem(2, <<"B">>, <<11>>)>>),
     Draft(<<FolderItem(9, <<>>, <<10>>)>>),
     Draft(<<FolderItem(1, <<"A">>, <<10>>), FolderItem(2, <<"B">>, <<10>>)>>),
     Draft(<<Obj([folder_id |-> Int_(1), folder_title |-> Str(<<"A">>)])>>),
     Obj([categorized |-> Str(<<"x">>)])}
\* answers read at a prompt
WizAnswers ==
    {TimedOut, Line(<<"y">>), Line(<<" ", "Y", "E", "S", " ">>), Line(<<"U+662F">>),
     Line(<<"n">>), Line(<<"N", "o">>), Line(<<>>), Line(<<"x">>)}

\* telegram_ops.save_groups_data: the file is replaced, an existing one is
\* first copied to a backup
SaveGroupsData(file, backups, data_) ==
    [file |-> data_,
     backups |-> IF file # Null THEN Append(backups, file) ELSE backups]

\* the errors surfaced by one pass of the validate loop: the shape check,
\* then the reference check
LoopErrors(d) ==
    LET shape == validate_groups_json(d)
    IN  IF ~shape.ok THEN <<shape.msg>>
        ELSE validate_reference_integrity(d, FolderIdsOf(WizFolders), ChatIdsOf(WizChats))

WizInit ==
    /\ pc = "load"
    /\ wizDisk \in WizDrafts
    /\ wizDraft = Null
    /\ wizStage = 1
    /\ wizDefault \in {Null, Bool(TRUE), Bool(FALSE)}
    /\ wizRounds = 0
    /\ wizRetryLine = NotAsked /\ wizLine1 = NotAsked /\ wizLine2 = NotAsked
    /\ wizFinal \in {Null, Draft(<<>>)}
    /\ wizBackups = <<>>
    /\ wizApplied = <<>>
    /\ WizRestIdle

\* the draft file is read and validated
WizLoadValidate ==
    /\ pc = "load"
    /\ wizDraft' = wizDisk
    /\ IF LoopErrors(wizDisk) = <<>>
       THEN /\ pc' = IF wizStage = 1 THEN "review" ELSE "confirm1"
            /\ UNCHANGED wizRounds
       ELSE /\ pc' = "ask_retry"
            /\ wizRounds' = IF wizRounds < WizMaxRounds THEN wizRounds + 1 ELSE wizRounds
    /\ UNCHANGED <<wizDisk, wizStage, wizDefault, wizRetryLine, wizLine1, wizLine2,
                   wizFinal, wizBackups, wizApplied>>
    /\ UNCHANGED WizRest

\* the human is asked whether to keep editing
WizRetryReply ==
    /\ pc = "ask_retry"
    /\ \E answer \in WizAnswers :
        LET r == prompt_yes_no(answer, wizDefault)
        IN  /\ wizRetryLine' = answer
            /\ pc' = IF r = Again THEN "ask_retry"
                     ELSE IF r = Bool(TRUE) THEN "load" ELSE "aborted"
    /\ UNCHANGED <<wizDisk, wizDraft, wizStage, wizDefault, wizRounds, wizLine1, wizLine2,
                   wizFinal, wizBackups, wizApplied>>
    /\ UNCHANGED WizRest

\* the human edits the draft file while a prompt is waiting
WizHumanEdits ==
    /\ pc \in {"ask_retry", "review", "confirm1", "confirm2"}
    /\ \E d \in WizDrafts : d # wizDisk /\ wizDisk' = d
    /\ UNCHANGED <<pc, wizDraft, wizStage, wizDefault, wizRounds, wizRetryLine, wizLine1,
                   wizLine2, wizFinal, wizBackups, wizApplied>>
    /\ UNCHANGED WizRest

\* unassigned review: the chats are left as they are, or the first unassigned
\* chat is assigned to a folder and the draft is saved
WizReview ==
    /\ pc = "review"
    /\ LET un == compute_unassigned_chats(WizChats, wizDraft)
       IN  \/ UNCHANGED <<wizDraft, wizDisk>>
           \/ /\ un # <<>>
              /\ \E n \in 1..Len(WizFolders) :
                    wizDraft' = add_chat_assignment(wizDraft, WizFolders[n].id,
                                    WizFolders[n].title, Head(un), WizManualReason)
              /\ wizDisk' = wizDraft'
    /\ wizStage' = 2
    /\ pc' = "load"
    /\ UNCHANGED <<wizDefault, wizRounds, wizRetryLine, wizLine1, wizLine2,
                   wizFinal, wizBackups, wizApplied>>
    /\ UNCHANGED WizRest

\* confirmation stage 1: the validated draft becomes the final artifact
WizConfirm1 ==
    /\ pc = "confirm1"
    /\ \E answer \in WizAnswers :
        LET r == prompt_yes_no(answer, wizDefault)
            saved == SaveGroupsData(wizFinal, wizBackups, wizDraft)
        IN  IF r = Again
            THEN UNCHANGED <<pc, wizLine1, wizFinal, wizBackups>>
            ELSE /\ wizLine1' = answer
                 /\ IF r = Bool(TRUE)
                    THEN /\ wizFinal' = saved.file
                         /\ wizBackups' = saved.backups
                         /\ pc' = "confirm2"
                    ELSE /\ pc' = "aborted"
                         /\ UNCHANGED <<wizFinal, wizBackups>>
    /\ UNCHANGED <<wizDisk, wizDraft, wizStage, wizDefault, wizRounds, wizRetryLine,
                   wizLine2, wizApplied>>
    /\ UNCHANGED WizRest

\* confirmation stage 2: the external mutation is invoked
WizConfirm2 ==
    /\ pc = "confirm2"
    /\ \E answer \in WizAnswers :
        LET r == prompt_yes_no(answer, wizDefault)
        IN  IF r = Again
            THEN UNCHANGED <<pc, wizLine2, wizApplied>>
            ELSE /\ wizLine2' = answer
                 /\ IF r = Bool(TRUE)
                    THEN /\ wizApplied' = Append(wizApplied, wizDraft)
                         /\ pc' = "applied"
                    ELSE /\ pc' = "aborted"
                         /\ UNCHANGED wizApplied
    /\ UNCHANGED <<wizDisk, wizDraft, wizStage, wizDefault, wizRounds, wizRetryLine,
                   wizLine1, wizFinal, wizBackups>>
    /\ UNCHANGED WizRest

WizNext ==
    \/ WizLoadValidate
    \/ WizRetryReply
    \/ WizHumanEdits
    \/ WizReview
    \/ WizConfirm1
    \/ WizConfirm2
SpecWizard == WizInit /\ [][WizNext]_vars

-----------------------------------------------------------------------------
(* Claims about the lifecycle controller *)

AffirmativeTokens ==
    {<<"y">>, <<"y", "e", "s">>, <<"U+662F">>, <<"U+786E", "U+8BA4">>, <<"1">>}
NegativeTokens ==
    {<<"n">>, <<"n", "o">>, <<"U+5426">>, <<"U+53D6", "U+6D88">>, <<"0">>}
\* the answer is a yes: an affirmative token in any case, or nothing typed
\* at a prompt whose default is yes
Affirmative(answer) ==
    /\ answer.k = "str"
    /\ \/ Lower(Strip(answer.s)) \in AffirmativeTokens
       \/ Strip(answer.s) = <<>> /\ wizDefault = Bool(TRUE)
\* the answer is a no
Negative(answer) ==
    /\ answer.k = "str"
    /\ \/ Lower(Strip(answer.s)) \in NegativeTokens
       \/ Strip(answer.s) = <<>> /\ wizDefault = Bool(FALSE)

PassesBoth(d) ==
    /\ validate_groups_json(d).ok
    /\ FoldersKnown(d, FolderIdsOf(WizFolders))
    /\ ChatsKnown(d, ChatIdsOf(WizChats))
    /\ ~OccursTwice(d)

\* C10: at the retry gate a no (or no answer) ends the run and a yes leads
\* to the draft file being read again before the next validation, however
\* many rounds have passed; the controller is beyond a loop only with the
\* draft it last read from disk, which passes both checks
C10_RetryLoop ==
    /\ [](pc \in {"review", "confirm1", "confirm2", "applied"} => PassesBoth(wizDraft))
    /\ [][pc = "load" =>
            /\ wizDraft' = wizDisk
            /\ pc' \in {"review", "confirm1"} <=> PassesBoth(wizDisk)
            /\ pc' = "ask_retry" <=> ~PassesBoth(wizDisk)]_vars
    /\ [][(pc = "ask_retry" /\ pc' # "ask_retry") =>
            IF Affirmative(wizRetryLine')
            THEN pc' = "load" /\ wizDisk' = wizDisk
            ELSE pc' = "aborted"]_vars
    /\ [][(pc = "ask_retry" /\ wizRetryLine' # wizRetryLine) =>
            /\ Negative(wizRetryLine') => pc' = "aborted"
            /\ wizRetryLine' = TimedOut => pc' = "aborted"
            /\ Affirmative(wizRetryLine') => pc' = "load"]_vars

\* C10 witness: the draft failed WizMaxRounds times, on the shape and on the
\* references, each time the human answered yes after editing the file, and
\* the draft then read passed: the controller is beyond the first loop
C10_Witness ==
    /\ pc = "review"
    /\ wizRounds = WizMaxRounds
    /\ Affirmative(wizRetryLine)
    /\ wizDraft = wizDisk
    /\ PassesBoth(wizDraft)

-----------------------------------------------------------------------------
(* run.py: validate_groups_json and the /get handler get_dialogues_handler *)

\* truth value of a loaded JSON value (`if existing_data:`)
PyTruthy(v) ==
    CASE v.k = "null" -> FALSE
      [] v.k = "bool" -> v.b
      [] v.k = "int" -> v.i # 0
      [] v.k = "str" -> v.s # <<>>
      [] v.k = "list" -> v.l # <<>>
      [] v.k = "obj" -> DOMAIN v.o # {}
      [] OTHER -> TRUE

RECURSIVE RunShapeChats(_, _, _)
RunShapeChats(chats, i, j) ==
    IF j > Len(chats) THEN ShapeOk
    ELSE IF ~IsDict(chats[j]) THEN ShapeErr("must be an object", i, j - 1, "")
    ELSE IF ~Has(chats[j], "chat_id") THEN ShapeErr("missing", i, j - 1, "chat_id")
    ELSE IF IntCoerce(chats[j].o["chat_id"]).r \in {"ValueError", "TypeError"}
         THEN ShapeErr("must be a number", i, j - 1, "chat_id")
    ELSE IF IntCoerce(chats[j].o["chat_id"]).r # "ok"
         THEN ShapeErr("error while validating", 0, 0, "")
    ELSE RunShapeChats(chats, i, j + 1)

RECURSIVE RunShapeFolders(_, _)
RunShapeFolders(categorized, i) ==
    IF i > Len(categorized) THEN ShapeOk
    ELSE
        LET folder_update == categorized[i]
        IN  IF ~IsDict(folder_update) THEN ShapeErr("must be an object", i - 1, -1, "")
            ELSE IF ~Has(folder_update, "folder_id")
                 THEN ShapeErr("missing", i - 1, -1, "folder_id")
            ELSE IF ~Has(folder_update, "folder_title")
                 THEN ShapeErr("missing", i - 1, -1, "folder_title")
            ELSE IF ~Has(folder_update, "chats") THEN ShapeErr("missing", i - 1, -1, "chats")
            ELSE IF folder_update.o["folder_id"].k \notin {"int", "bool"}
                 THEN ShapeErr("must be a number", i - 1, -1, "folder_id")
            ELSE IF ~IsList(folder_update.o["chats"])
                 THEN ShapeErr("must be an array", i - 1, -1, "chats")
            ELSE LET sc == RunShapeChats(folder_update.o["chats"].l, i - 1, 1)
                 IN  IF ~sc.ok THEN sc ELSE RunShapeFolders(categorized, i + 1)

\* run.validate_groups_json
run_validate_groups_json(d) ==
    IF ~IsDict(d) THEN ShapeErr("must be an object", 0, 0, "data")
    ELSE IF ~Has(d, "categorized") THEN ShapeErr("missing", 0, 0, "categorized")
    ELSE IF ~IsList(d.o["categorized"]) THEN ShapeErr("must be an array", 0, 0, "categorized")
    ELSE RunShapeFolders(d.o["categorized"].l, 1)

\* replies the handler reads as a yes, and as "done" (response.text.lower())
RunYes == {<<"y", "e", "s">>, <<"y">>, <<"U+662F">>, <<"U+786E", "U+5B9A">>}
RunDone == {<<"d", "o", "n", "e">>, <<"o", "k">>, <<"U+5B8C", "U+6210">>, <<"U+597D", "U+4E86">>}

LegFolderIds == {1, 2}
LegChatIds == {10, 11}
\* contents of groups.json: none, valid drafts, an unknown folder, a chat
\* under two folders, a missing field, and a value that is not a draft
LegFiles ==
    {Null,
     Draft(<<FolderItem(1, <<"A">>, <<10>>)>>),
     Draft(<<FolderItem(1, <<"A">>, <<10>>), FolderItem(2, <<"B">>, <<11>>)>>),
     Draft(<<FolderItem(9, <<"X">>, <<10>>)>>),
     Draft(<<FolderItem(1, <<"A">>, <<10>>), FolderItem(2, <<"B">>, <<10>>)>>),
     Draft(<<Obj([folder_id |-> Int_(1), chats |-> List(<<>>)])>>),
     List(<<Int_(1)>>)}
\* replies of the user; TimedOut when wait_for_user_response times out
LegReplies ==
    {TimedOut, Line(<<"y", "e", "s">>), Line(<<"Y">>), Line(<<"n", "o">>),
     Line(<<"D", "o", "n", "e">>), Line(<<"o", "k">>)}
IsRunYes(reply) == reply # TimedOut /\ Lower(reply.s) \in RunYes
IsRunDone(reply) == reply # TimedOut /\ Lower(reply.s) \in RunDone

LegInit ==
    /\ pc = "get"
    /\ legFile \in LegFiles
    /\ legData = Null
    /\ legCleared = FALSE
    /\ legValidated = {}
    /\ legReuse = NotAsked /\ legDone = NotAsked
    /\ legApplied = <<>>
    /\ LegRestIdle

\* /get arrives: groups.json is loaded; when it holds data the user is asked
\* whether to use it, else the task starts (folders are fetched; without
\* folders the handler returns)
LegGet ==
    /\ pc = "get"
    /\ legData' = legFile
    /\ \E have_folders \in BOOLEAN :
        pc' = IF PyTruthy(legFile) THEN "ask_reuse"
              ELSE IF have_folders THEN "ask_clear" ELSE "returned"
    /\ UNCHANGED <<legFile, legCleared, legValidated, legReuse, legDone, legApplied>>
    /\ UNCHANGED LegRest

\* the reply to "use the existing data?": a yes goes on to the clear prompt
\* of the reuse path, anything else and a timeout start the task
LegReuseReply ==
    /\ pc = "ask_reuse"
    /\ \E reply \in LegReplies, have_folders \in BOOLEAN :
        /\ legReuse' = reply
        /\ pc' = IF ~have_folders THEN "returned"
                 ELSE IF IsRunYes(reply) THEN "ask_clear_reuse" ELSE "ask_clear"
    /\ UNCHANGED <<legFile, legData, legCleared, legValidated, legDone, legApplied>>
    /\ UNCHANGED LegRest

\* reuse path: the reply to "clear the folders first?", then the existing
\* data goes to update_folders_with_categorization
LegReuseApply ==
    /\ pc = "ask_clear_reuse"
    /\ \E reply \in LegReplies : legCleared' = IsRunYes(reply)
    /\ legApplied' = Append(legApplied, legData)
    /\ pc' = "reported"
    /\ UNCHANGED <<legFile, legData, legValidated, legReuse, legDone>>
    /\ UNCHANGED LegRest

\* task path: the reply to "clear the folders first?", the chats are taken
\* from the cache or collected and the AI guide printed (without chats the
\* handler returns)
LegClearReply ==
    /\ pc = "ask_clear"
    /\ \E reply \in LegReplies, have_chats \in BOOLEAN :
        /\ legCleared' = IsRunYes(reply)
        /\ pc' = IF have_chats THEN "wait_done" ELSE "returned"
    /\ UNCHANGED <<legFile, legData, legValidated, legReuse, legDone, legApplied>>
    /\ UNCHANGED LegRest

\* the user writes groups.json while the handler waits for "done"
LegUserWrites ==
    /\ pc = "wait_done"
    /\ \E d \in LegFiles : d # legFile /\ legFile' = d
    /\ UNCHANGED <<pc, legData, legCleared, legValidated, legReuse, legDone, legApplied>>
    /\ UNCHANGED LegRest

\* the reply awaited after the guide: on "done" groups.json is loaded, its
\* format validated, and the data goes to update_folders_with_categorization
LegDoneReply ==
    /\ pc = "wait_done"
    /\ \E reply \in LegReplies :
        /\ legDone' = reply
        /\ IF ~IsRunDone(reply)
           THEN pc' = "returned" /\ UNCHANGED <<legData, legValidated, legApplied>>
           ELSE /\ legData' = legFile
                /\ IF ~PyTruthy(legFile)
                   THEN pc' = "returned" /\ UNCHANGED <<legValidated, legApplied>>
                   ELSE /\ legValidated' = legValidated \cup {<<"shape", legFile>>}
                        /\ IF run_validate_groups_json(legFile).ok
                           THEN /\ legApplied' = Append(legApplied, legFile)
                                /\ pc' = "reported"
                           ELSE pc' = "returned" /\ UNCHANGED legApplied
    /\ UNCHANGED <<legFile, legCleared, legReuse>>
    /\ UNCHANGED LegRest

LegNext ==
    \/ LegGet
    \/ LegReuseReply
    \/ LegReuseApply
    \/ LegClearReply
    \/ LegUserWrites
    \/ LegDoneReply
SpecLegacy == LegInit /\ [][LegNext]_vars

-----------------------------------------------------------------------------
(* Claim about run.py *)

\* C9: every draft handed to the external folder mutation went through the
\* shape check and the reference check, passes both, and was confirmed by the
\* human - also when an existing groups.json is used again
C9_MutationOnlyValidated ==
    \A n \in 1..Len(legApplied) :
        /\ <<"shape", legApplied[n]>> \in legValidated
        /\ <<"references", legApplied[n]>> \in legValidated
        /\ run_validate_groups_json(legApplied[n]).ok
        /\ validate_reference_integrity(legApplied[n], LegFolderIds, LegChatIds) = <<>>
        /\ IsRunYes(legReuse) \/ IsRunDone(legDone)

-----------------------------------------------------------------------------
(* telegram_ops.update_folders_with_categorization.  A peer is its kind and
   its id; existing_folders is kept as folder id -> existing_peers *)

Peer(kind, id) == [kind |-> kind, id |-> id]
\* _peer_identity: the first of channel_id, chat_id, user_id that is set
NoIdentity == 0
PeerIdentity(peer) == peer.id

\* dialog_map: chat_id -> input_entity of the dialog (Null when it has none).
\* Chats 10 and 12 have peers of one identity, chat 14 a peer without ids
ApDialogMap ==
    [c \in {10, 11, 12, 13, 14} |->
        CASE c = 10 -> Peer("channel", 1)
          [] c = 11 -> Peer("user", 2)
          [] c = 12 -> Peer("chat", 1)
          [] c = 13 -> Null
          [] c = 14 -> Peer("self", NoIdentity)]

\* new_peers of one folder entry; "OverflowError" when int(chat_id) raises it
RECURSIVE NewPeers(_, _)
NewPeers(chats_to_add, new_peers) ==
    IF chats_to_add = <<>> THEN [r |-> "ok", peers |-> new_peers]
    ELSE
        LET c == IntCoerce(Get(Head(chats_to_add), "chat_id", Null))
            rest == Tail(chats_to_add)
        IN  IF c.r \in {"TypeError", "ValueError"} THEN NewPeers(rest, new_peers)
            ELSE IF c.r # "ok" THEN [r |-> c.r, peers |-> <<>>]
            ELSE IF c.val \notin DOMAIN ApDialogMap THEN NewPeers(rest, new_peers)
            ELSE IF ApDialogMap[c.val] = Null THEN NewPeers(rest, new_peers)
            ELSE NewPeers(rest, Append(new_peers, ApDialogMap[c.val]))

\* additive mode: the new peers whose identity is not in the folder yet
RECURSIVE PeersToAdd(_, _, _)
PeersToAdd(new_peers, existing_ids, peers_to_add) ==
    IF new_peers = <<>> THEN peers_to_add
    ELSE
        LET peer == Head(new_peers)
            peer_id == PeerIdentity(peer)
        IN  IF peer_id = NoIdentity \/ peer_id \in existing_ids
            THEN PeersToAdd(Tail(new_peers), existing_ids, peers_to_add)
            ELSE PeersToAdd(Tail(new_peers), existing_ids \cup {peer_id},
                    Append(peers_to_add, peer))

\* mutant of RecordedPeers: the record is written before the request's outcome
RecordedPeersAlways(existing_peers, all_peers, ok) == all_peers

\* folder["existing_peers"] after the request: assigned only when the request
\* returned
RecordedPeers(existing_peers, all_peers, ok) ==
    IF ok THEN all_peers ELSE existing_peers

\* the known folder of an entry, 0 when folder_map has none
ApFolderOf(folder_update, folders) ==
    LET k == PyKey(Get(folder_update, "folder_id", Null))
    IN  IF \E f \in DOMAIN folders : IntKey(f) = k
        THEN CHOOSE f \in DOMAIN folders : IntKey(f) = k
        ELSE 0

\* the request one folder entry leads to: none, or the peers sent
ApRequestOf(folder_update, folders, cleared) ==
    LET f == ApFolderOf(folder_update, folders)
        np == NewPeers(Get(folder_update, "chats", List(<<>>)).l, <<>>)
    IN  IF f = 0 THEN [r |-> "skip"]
        ELSE IF np.r # "ok" THEN [r |-> np.r]
        ELSE IF np.peers = <<>> THEN [r |-> "skip"]
        ELSE
            LET existing_peers == folders[f]
                peers_to_add ==
                    IF cleared THEN np.peers
                    ELSE PeersToAdd(np.peers,
                            {PeerIdentity(existing_peers[n]) : n \in 1..Len(existing_peers)},
                            <<>>)
            IN  IF peers_to_add = <<>> THEN [r |-> "skip"]
                ELSE [r |-> "send", folder |-> f, all_peers |-> existing_peers \o peers_to_add]

(* Specification SpecApply: a draft is applied to the folders, one folder
   entry per step, each request succeeding or failing; then it is applied a
   second time in the same mode *)
ChatsItem(fid, chat_ids) ==
    Obj([folder_id |-> Int_(fid), folder_title |-> Str(<<"T">>),
         chats |-> List([n \in 1..Len(chat_ids) |-> ChatOf(chat_ids[n])])])
ApItems ==
    {ChatsItem(1, <<Int_(10)>>), ChatsItem(1, <<Int_(11), Int_(10)>>),
     ChatsItem(2, <<Int_(11)>>), ChatsItem(2, <<Int_(12), Int_(14)>>),
     ChatsItem(9, <<Int_(10)>>), ChatsItem(2, <<Int_(99), Int_(13)>>),
     ChatsItem(1, <<Str(<<"1", "0">>), Int_(12)>>)}
ApDrafts == {Draft(items) : items \in SeqsUpTo(ApItems, ApMaxFolders)}
ApFolderRecords ==
    {[f \in {1, 2} |-> IF f = 1 THEN p1 ELSE p2] :
        p1 \in {<<>>, <<Peer("channel", 1)>>}, p2 \in {<<>>, <<Peer("user", 2)>>}}

ApInit ==
    /\ pc = "apply"
    /\ apDraft \in ApDrafts
    /\ apFolders \in ApFolderRecords
    /\ apCleared \in BOOLEAN
    /\ apIndex = 1
    /\ apPass = 1
    /\ apRequests = <<>>
    /\ apAfterFirst = <<>>
    /\ ApRestIdle

\* one turn of the loop over `categorized`
ApplyFolder ==
    /\ pc = "apply"
    /\ apIndex <= Len(Categorized(apDraft))
    /\ LET q == ApRequestOf(Categorized(apDraft)[apIndex], apFolders, apCleared)
       IN  IF q.r = "skip"
           THEN /\ apIndex' = apIndex + 1
                /\ UNCHANGED <<pc, apFolders, apRequests>>
           ELSE IF q.r # "send"
           THEN /\ pc' = "apply_raised"
                /\ UNCHANGED <<apIndex, apFolders, apRequests>>
           ELSE \E ok \in BOOLEAN :
                /\ apRequests' = Append(apRequests,
                        [pass |-> apPass, index |-> apIndex, folder |-> q.folder,
                         peers |-> q.all_peers, ok |-> ok])
                /\ apFolders' = [apFolders EXCEPT
                        ![q.folder] = RecordedPeers(apFolders[q.folder], q.all_peers, ok)]
                /\ apIndex' = apIndex + 1
                /\ UNCHANGED pc
    /\ UNCHANGED <<apDraft, apCleared, apPass, apAfterFirst>>
    /\ UNCHANGED ApRest

\* the loop is over
ApplyReturn ==
    /\ pc = "apply"
    /\ apIndex > Len(Categorized(apDraft))
    /\ pc' = "applied"
    /\ UNCHANGED apVars
    /\ UNCHANGED ApRest

\* the same draft is applied again, in the same mode, to the records left
ApplyAgain ==
    /\ pc = "applied"
    /\ apPass = 1
    /\ apPass' = 2
    /\ apIndex' = 1
    /\ apAfterFirst' = apFolders
    /\ pc' = "apply"
    /\ UNCHANGED <<apDraft, apFolders, apCleared, apRequests>>
    /\ UNCHANGED ApRest

ApNext == ApplyFolder \/ ApplyReturn \/ ApplyAgain
SpecApply == ApInit /\ [][ApNext]_vars

(* Claim vocabulary for the application of a draft *)
IsPrefixOf(a, b) == Len(a) <= Len(b) /\ \A n \in 1..Len(a) : a[n] = b[n]
ApFailedLast ==
    /\ Len(apRequests') = Len(apRequests) + 1
    /\ ~apRequests'[Len(apRequests')].ok
ApResolvable(folder_update) ==
    \E n \in 1..Len(folder_update.o.chats.l) :
        LET c == folder_update.o.chats.l[n].o.chat_id
            v == IF c.k = "int" THEN c.i ELSE 10
        IN  v \in DOMAIN ApDialogMap /\ ApDialogMap[v] # Null
ApRequestsAt(pass, index) ==
    {n \in 1..Len(apRequests) : apRequests[n].pass = pass /\ apRequests[n].index = index}

\* C11: a failed folder request is caught: the loop goes on to the next entry
\* of the draft, in draft order and to the end of the draft; no folder record
\* ever loses peers (nothing is rolled back), and a failed request leaves
\* every folder record, the failed folder's included, as it was.
C11_FailureIsSkipped ==
    /\ [](\A n, m \in 1..Len(apRequests) :
            n < m => \/ apRequests[n].pass < apRequests[m].pass
                     \/ /\ apRequests[n].pass = apRequests[m].pass
                        /\ apRequests[n].index < apRequests[m].index)
    /\ [](pc = "applied" /\ apPass = 1 /\ apCleared =>
            \A j \in 1..Len(Categorized(apDraft)) :
                LET e == Categorized(apDraft)[j]
                IN  e.o.folder_id.i \in DOMAIN apFolders /\ ApResolvable(e)
                        => ApRequestsAt(1, j) # {})
    /\ [][pc = "apply" =>
            /\ pc' \in {"apply", "applied"}
            /\ apIndex <= Len(Categorized(apDraft)) => apIndex' = apIndex + 1
            /\ \A f \in DOMAIN apFolders : IsPrefixOf(apFolders[f], apFolders'[f])
            /\ ApFailedLast => apFolders' = apFolders]_vars

\* the first request failed, the failed folder kept the peer it had, and the
\* next entry of the draft was sent and recorded
C11_Witness ==
    \E a, b \in 1..Len(apRequests) :
        /\ apRequests[a].pass = 1 /\ apRequests[b].pass = 1
        /\ apRequests[a].index < apRequests[b].index
        /\ ~apRequests[a].ok /\ apRequests[b].ok
        /\ apRequests[a].folder # apRequests[b].folder
        /\ Len(apFolders[apRequests[a].folder]) = 1
        /\ apFolders[apRequests[b].folder] = apRequests[b].peers
        /\ apPass = 1

\* C12: applying the same draft a second time, in the same mode and on the
\* folder records the first application left, changes no folder's recorded
\* membership (here even when every request of the first application went
\* through).
C12_SecondApplicationChangesNothing ==
    /\ pc = "applied"
    /\ apPass = 2
    /\ \A n \in 1..Len(apRequests) : apRequests[n].pass = 1 => apRequests[n].ok
    => apFolders = apAfterFirst

-----------------------------------------------------------------------------
(* ai_clients: classify = the provider call under _run_with_retry, then
   classification.parse_ai_response_to_groups on the text it returned.  A
   response text is a sequence of pieces: a ``` fence, the word json, prose
   without braces, a stray brace, or the text of one JSON value *)

Fence == [t |-> "fence"]
LangJson == [t |-> "lang"]
Prose == [t |-> "prose"]
OpenBrace == [t |-> "open"]
CloseBrace == [t |-> "close"]
JsonText(v) == [t |-> "json", v |-> v]

\* _strip_markdown_fence: ^```(?:json)?\s*(.*?)\s*```$ on the stripped text
StripMarkdownFence(text) ==
    IF Len(text) >= 2 /\ text[1] = Fence /\ text[Len(text)] = Fence
    THEN LET from == IF Len(text) >= 3 /\ text[2] = LangJson THEN 3 ELSE 2
         IN  [n \in 1..(Len(text) - from) |-> text[n + from - 1]]
    ELSE text

\* json.loads: the value, or JSONDecodeError unless the text is one JSON value
JsonLoads(text) ==
    IF Len(text) = 1 /\ text[1].t = "json" THEN text[1].v ELSE Raise("JSONDecodeError")

HasOpenBrace(piece) == piece = OpenBrace \/ (piece.t = "json" /\ IsDict(piece.v))
HasCloseBrace(piece) == piece = CloseBrace \/ (piece.t = "json" /\ IsDict(piece.v))
\* cleaned.find("{") and cleaned.rfind("}"), 0 for -1
FindOpen(text) ==
    IF \E n \in 1..Len(text) : HasOpenBrace(text[n])
    THEN CHOOSE n \in 1..Len(text) :
            HasOpenBrace(text[n]) /\ \A m \in 1..(n - 1) : ~HasOpenBrace(text[m])
    ELSE 0
RFindClose(text) ==
    IF \E n \in 1..Len(text) : HasCloseBrace(text[n])
    THEN CHOOSE n \in 1..Len(text) :
            HasCloseBrace(text[n]) /\ \A m \in (n + 1)..Len(text) : ~HasCloseBrace(text[m])
    ELSE 0

parse_ai_response_to_groups(text) ==
    LET cleaned == StripMarkdownFence(text)
        first == JsonLoads(cleaned)
        start == FindOpen(cleaned)
        end == RFindClose(cleaned)
        parsed ==
            IF first # Raise("JSONDecodeError") THEN first
            ELSE IF start = 0 \/ end = 0 \/ end < start THEN Raise("ValueError")
            ELSE JsonLoads([n \in 1..(end - start + 1) |-> cleaned[n + start - 1]])
    IN  IF parsed.k = "raise" THEN parsed ELSE normalize_groups_data(parsed)

\* an exception of the provider call: its status code (0 for none) and
\* whether its text holds one of the transient signals
ProviderError(status_code, transient) == [status_code |-> status_code, transient |-> transient]
NoStatus == 0
\* mutant of is_retryable_exception: no failure is retryable
IsRetryableNever(exc) == FALSE

is_retryable_exception(exc) ==
    \/ exc.status_code = 429
    \/ (exc.status_code # NoStatus /\ exc.status_code >= 500)
    \/ exc.transient

(* Specification SpecClassify: one call of classify; each attempt of the
   provider call raises or returns a text *)
ClsGood == Draft(<<FolderItem(1, <<"T">>, <<10>>)>>)
ClsTexts ==
    {<<JsonText(ClsGood)>>, <<Fence, LangJson, JsonText(ClsGood), Fence>>,
     <<Fence, JsonText(ClsGood), Fence>>, <<Prose, JsonText(ClsGood), Prose>>,
     <<Fence, Prose, JsonText(ClsGood), Fence>>,
     <<>>, <<Prose>>, <<Fence, LangJson, Fence>>, <<JsonText(List(<<>>))>>, <<JsonText(Int_(5))>>,
     <<JsonText(Obj([folders |-> List(<<>>)]))>>,
     <<JsonText(Draft(<<Obj([folder_id |-> FloatInf])>>))>>,
     <<OpenBrace, Prose>>, <<CloseBrace, Prose, OpenBrace>>, <<OpenBrace, Prose, CloseBrace>>,
     <<JsonText(ClsGood), JsonText(ClsGood)>>}
ClsErrors == {ProviderError(c, t) : c \in {NoStatus, 400, 429, 503}, t \in BOOLEAN}

ClsInit ==
    /\ pc = "classify"
    /\ clsMaxRetries \in 1..ClsMaxRetries
    /\ clsAttempt = 1
    /\ clsFailures = <<>>
    /\ clsResponse = Null
    /\ clsResult = Null
    /\ ClsRestIdle

\* one attempt of _run_with_retry raises
ClassifyAttemptFails ==
    /\ pc = "classify"
    /\ \E exc \in ClsErrors :
        /\ clsFailures' = Append(clsFailures, exc)
        /\ IF is_retryable_exception(exc) /\ clsAttempt < clsMaxRetries
           THEN /\ clsAttempt' = clsAttempt + 1
                /\ UNCHANGED <<pc, clsResult>>
           ELSE /\ clsResult' = Raise("AIClientError")
                /\ pc' = "classified"
                /\ UNCHANGED clsAttempt
    /\ UNCHANGED <<clsMaxRetries, clsResponse>>
    /\ UNCHANGED ClsRest

\* one attempt returns the response text, which classify parses
ClassifyAttemptReturns ==
    /\ pc = "classify"
    /\ \E text \in ClsTexts :
        /\ clsResponse' = text
        /\ clsResult' = parse_ai_response_to_groups(text)
    /\ pc' = "classified"
    /\ UNCHANGED <<clsMaxRetries, clsAttempt, clsFailures>>
    /\ UNCHANGED ClsRest

ClsNext == ClassifyAttemptFails \/ ClassifyAttemptReturns
SpecClassify == ClsInit /\ [][ClsNext]_vars

\* C13: whatever makes classify fail, the exception that leaves it is the
\* typed classification error AIClientError: after exhausted retries, after a
\* failure that is not retried, and for a response that cannot be parsed or
\* normalised into a draft.
C13_FailuresAreTyped ==
    pc = "classified" /\ clsResult.k = "raise" => clsResult = Raise("AIClientError")

-----------------------------------------------------------------------------
(* The unassigned review (spec 4.5): reviewing(index) over the chats that
   compute_unassigned_chats returned, with the actions ignore, manual-assign,
   relist, quit and bulk-assign; every assignment is one call of
   add_chat_assignment *)

RvFolders == <<[id |-> 1, title |-> <<"A">>], [id |-> 2, title |-> <<"B">>],
               [id |-> 3, title |-> <<"C">>]>>
RvUnknownFolder == 9
RvFolderIds == {RvFolders[n].id : n \in 1..Len(RvFolders)}
RvTitle(fid) == (CHOOSE n \in 1..Len(RvFolders) : RvFolders[n].id = fid)
\* the chats of the snapshot; the title of the second one holds the titles
\* of folders A and B
RvChats ==
    [n \in 1..RvMaxChats |->
        IF n = 2 THEN Obj([SnapChat(9 + n).o EXCEPT !.title = Str(<<"a", "B", "b">>)])
        ELSE SnapChat(9 + n)]

\* the suggestion heuristic: the tokens of the folder title (split on
\* whitespace, lower-cased) that occur in title + description + last_message
RECURSIVE Tokens(_, _)
Tokens(s, word) ==
    IF s = <<>> THEN (IF word = <<>> THEN <<>> ELSE <<word>>)
    ELSE IF IsSpace(Head(s))
    THEN (IF word = <<>> THEN <<>> ELSE <<word>>) \o Tokens(Tail(s), <<>>)
    ELSE Tokens(Tail(s), Append(word, Head(s)))
Contains(text, tok) ==
    \E i \in 0..(Len(text) - Len(tok)) : \A k \in 1..Len(tok) : text[i + k] = tok[k]
ChatText(chat) ==
    Lower(PyStr(Get(chat, "title", Str(<<>>))) \o PyStr(Get(chat, "description", Str(<<>>)))
          \o PyStr(Get(chat, "last_message", Str(<<>>))))
SuggestScore(chat, title) ==
    LET toks == Tokens(Lower(title), <<>>)
    IN  Cardinality({n \in 1..Len(toks) : Contains(ChatText(chat), toks[n])})
\* the first folder of the highest score, 0 when every score is zero
SuggestFolder(chat, folders) ==
    IF \A n \in 1..Len(folders) : SuggestScore(chat, folders[n].title) = 0 THEN 0
    ELSE folders[CHOOSE n \in 1..Len(folders) :
            /\ \A h \in 1..Len(folders) :
                    SuggestScore(chat, folders[h].title) <= SuggestScore(chat, folders[n].title)
            /\ \A h \in 1..(n - 1) :
                    SuggestScore(chat, folders[h].title) < SuggestScore(chat, folders[n].title)].id

\* validated drafts over folders 1 and 2: every chat under at most one folder
RvItemOf(fid, where) ==
    LET ns == {n \in 1..RvMaxChats : where[n] = fid}
        RECURSIVE Ids(_)
        Ids(from) == IF from > RvMaxChats THEN <<>>
                     ELSE IF from \in ns THEN <<9 + from>> \o Ids(from + 1)
                     ELSE Ids(from + 1)
    IN  FolderItem(fid, RvFolders[RvTitle(fid)].title, Ids(1))
RvDrafts ==
    {Draft(IF swap THEN <<RvItemOf(2, where), RvItemOf(1, where)>>
           ELSE IF \A n \in 1..RvMaxChats : where[n] # 2 THEN <<RvItemOf(1, where)>>
           ELSE <<RvItemOf(1, where), RvItemOf(2, where)>>) :
        where \in [1..RvMaxChats -> {0, 1, 2}], swap \in BOOLEAN}

\* chats[from..] assigned to one folder, one add_chat_assignment per chat
RECURSIVE AssignFrom(_, _, _, _)
AssignFrom(d, chats, from, fid) ==
    IF from > Len(chats) THEN d
    ELSE AssignFrom(add_chat_assignment(d, fid, RvFolders[RvTitle(fid)].title,
                        chats[from], WizManualReason),
                    chats, from + 1, fid)

RvInit ==
    /\ pc = "review_start"
    /\ rvDraft0 \in RvDrafts
    /\ rvDraft = rvDraft0
    /\ rvUnassigned = <<>>
    /\ rvIndex = 0
    /\ rvLast = 0
    /\ rvBulk = Null
    /\ rvSuggested = 0
    /\ RvRestIdle

\* the review starts on the unassigned chats of the draft
ReviewStart ==
    /\ pc = "review_start"
    /\ rvUnassigned' = compute_unassigned_chats(RvChats, rvDraft)
    /\ pc' = "reviewing"
    /\ UNCHANGED <<rvDraft0, rvDraft, rvIndex, rvLast, rvBulk, rvSuggested>>
    /\ UNCHANGED RvRest

\* index exhausted
ReviewDone ==
    /\ pc = "reviewing"
    /\ rvIndex >= Len(rvUnassigned)
    /\ pc' = "review_done"
    /\ UNCHANGED rvVars
    /\ UNCHANGED RvRest

ReviewIgnore ==
    /\ pc = "reviewing"
    /\ rvIndex < Len(rvUnassigned)
    /\ rvIndex' = rvIndex + 1
    /\ UNCHANGED <<pc, rvDraft0, rvDraft, rvUnassigned, rvLast, rvBulk, rvSuggested>>
    /\ UNCHANGED RvRest

\* a folder id is entered (0: the empty line, which stands for the last-used
\* id); an id outside the known folders is refused
ReviewManualAssign ==
    /\ pc = "reviewing"
    /\ rvIndex < Len(rvUnassigned)
    /\ \E entered \in RvFolderIds \cup {0, RvUnknownFolder} :
        LET fid == IF entered = 0 THEN rvLast ELSE entered
        IN  IF fid \in RvFolderIds
            THEN /\ rvDraft' = add_chat_assignment(rvDraft, fid, RvFolders[RvTitle(fid)].title,
                                    rvUnassigned[rvIndex + 1], WizManualReason)
                 /\ rvLast' = fid
                 /\ rvIndex' = rvIndex + 1
            ELSE UNCHANGED <<rvDraft, rvLast, rvIndex>>
    /\ UNCHANGED <<pc, rvDraft0, rvUnassigned, rvBulk, rvSuggested>>
    /\ UNCHANGED RvRest

ReviewRelist ==
    /\ pc = "reviewing"
    /\ rvIndex < Len(rvUnassigned)
    /\ UNCHANGED <<pc, rvVars>>
    /\ UNCHANGED RvRest

ReviewQuit ==
    /\ pc = "reviewing"
    /\ rvIndex < Len(rvUnassigned)
    /\ pc' = "review_aborted"
    /\ UNCHANGED rvVars
    /\ UNCHANGED RvRest

\* all:<folder_id>, then the confirmation
ReviewBulkAssign ==
    /\ pc = "reviewing"
    /\ rvIndex < Len(rvUnassigned)
    /\ \E fid \in RvFolderIds \cup {RvUnknownFolder}, confirmed \in BOOLEAN :
        IF fid \in RvFolderIds /\ confirmed
        THEN /\ rvDraft' = AssignFrom(rvDraft, rvUnassigned, rvIndex + 1, fid)
             /\ rvBulk' = [at |-> rvIndex, folder |-> fid, before |-> rvDraft]
             /\ rvLast' = fid
             /\ pc' = "review_done"
        ELSE UNCHANGED <<pc, rvDraft, rvBulk, rvLast>>
    /\ UNCHANGED <<rvDraft0, rvUnassigned, rvIndex, rvSuggested>>
    /\ UNCHANGED RvRest

\* the suggestion for the chat on display is computed and shown
ReviewSuggest ==
    /\ pc = "reviewing"
    /\ rvIndex < Len(rvUnassigned)
    /\ rvSuggested' = SuggestFolder(rvUnassigned[rvIndex + 1], RvFolders)
    /\ UNCHANGED <<pc, rvDraft0, rvDraft, rvUnassigned, rvIndex, rvLast, rvBulk>>
    /\ UNCHANGED RvRest

RvNext ==
    \/ ReviewStart \/ ReviewDone \/ ReviewIgnore \/ ReviewManualAssign
    \/ ReviewRelist \/ ReviewQuit \/ ReviewBulkAssign \/ ReviewSuggest
SpecResolver == RvInit /\ [][RvNext]_vars

(* Claim vocabulary for the unassigned review *)
PairSet(d) == {DraftPairs(d)[n] : n \in 1..Len(DraftPairs(d))}
RvChatId(k) == rvUnassigned[k + 1].o.chat_id
PairsOfChat(d, chat_id) == {p \in PairSet(d) : p.chat = chat_id}

\* C14: a confirmed bulk-assign all:<f> at index i of n unassigned chats puts
\* exactly the chats at indices i..n-1 under folder f (each once, all in the
\* one entry of f), ends the loop at once, and leaves every other assignment,
\* those of the chats at indices 0..i-1 included, where it was.
C14_BulkAssignFromIndex ==
    rvBulk # Null =>
        LET i == rvBulk.at
            n == Len(rvUnassigned)
            added == {[folder |-> Int_(rvBulk.folder), chat |-> RvChatId(k)] : k \in i..(n - 1)}
        IN  /\ pc = "review_done"
            /\ rvIndex = i
            /\ PairSet(rvDraft) = PairSet(rvBulk.before) \cup added
            /\ Len(DraftPairs(rvDraft)) = Len(DraftPairs(rvBulk.before)) + (n - i)
            /\ added \cap PairSet(rvBulk.before) = {}
            /\ \A k \in 0..(i - 1) :
                PairsOfChat(rvDraft, RvChatId(k)) = PairsOfChat(rvBulk.before, RvChatId(k))
            /\ \A a, b \in 1..Len(Categorized(rvDraft)) :
                FolderId(Categorized(rvDraft)[a]) = FolderId(Categorized(rvDraft)[b]) => a = b

\* all:3 confirmed at index 1 of three unassigned chats, the first of which
\* had been assigned by hand to another folder
C14_Witness ==
    /\ rvBulk # Null
    /\ rvBulk.at = 1
    /\ Len(rvUnassigned) = 3
    /\ rvBulk.folder = 3
    /\ PairsOfChat(rvDraft, RvChatId(0)) = {[folder |-> Int_(1), chat |-> RvChatId(0)]}
    /\ PairsOfChat(rvDraft, RvChatId(2)) = {[folder |-> Int_(3), chat |-> RvChatId(2)]}

\* C15: through every sequence of review actions on a draft that had no
\* chat_id twice, no chat_id is in the draft twice, and every folder entry of
\* the starting draft is still at its place with the chats it had, in their
\* order, at the front of its chat list.
C15_ReviewKeepsAssignments ==
    /\ ~OccursTwice(rvDraft)
    /\ Len(Categorized(rvDraft0)) <= Len(Categorized(rvDraft))
    /\ \A e \in 1..Len(Categorized(rvDraft0)) :
        /\ FolderId(Categorized(rvDraft)[e]) = FolderId(Categorized(rvDraft0)[e])
        /\ IsPrefixOf(Chats(Categorized(rvDraft0)[e]), Chats(Categorized(rvDraft)[e]))

\* a review that assigned by hand, ignored, and then bulk-assigned, on a
\* draft that already held a chat
C15_Witness ==
    /\ pc = "review_done"
    /\ rvBulk # Null
    /\ rvBulk.at = 1
    /\ Len(DraftPairs(rvDraft0)) = 1
    /\ Len(DraftPairs(rvBulk.before)) = 1
    /\ Len(DraftPairs(rvDraft)) = 2

-----------------------------------------------------------------------------
(* telegram_ops.save_groups_data = save_json_file(backup=True): an existing
   file is copied to <timestamp>-<name>, the timestamp having the resolution
   of one second, and then opened for writing and written.  The content of
   the n-th call is Int_(n) *)

Partial == [k |-> "partial"]

\* backup_existing_groups_file: shutil.copy2 onto the name of this second,
\* replacing a backup of that name
BackupExistingGroupsFile(file, backups, timestamp) ==
    [t \in DOMAIN backups \cup {timestamp} |-> IF t = timestamp THEN file ELSE backups[t]]

\* save_json_file; copy_ok, write_ok: whether copy2 and json.dump went through
save_json_file(file, backups, timestamp, data_, copy_ok, write_ok) ==
    IF file # Null /\ ~copy_ok
    THEN [file |-> file, backups |-> backups, returned |-> FALSE]
    ELSE [file |-> IF write_ok THEN data_ ELSE Partial,
          backups |-> IF file # Null THEN BackupExistingGroupsFile(file, backups, timestamp)
                      ELSE backups,
          returned |-> write_ok]

(* Specification SpecSave: the final artifact is saved a few times while the
   clock advances or not *)
SvInit ==
    /\ pc = "saving"
    /\ svFile = Null
    /\ svBackups = <<>>
    /\ svClock = 0
    /\ svSaved = {}
    /\ svCount = 0
    /\ svReturned = Null
    /\ SvRestIdle

SaveGroupsDataCall ==
    /\ pc = "saving"
    /\ svCount < SvMaxSaves
    /\ \E copy_ok, write_ok \in BOOLEAN :
        LET r == save_json_file(svFile, svBackups, svClock, Int_(svCount + 1), copy_ok, write_ok)
        IN  /\ svFile' = r.file
            /\ svBackups' = r.backups
            /\ svReturned' = Bool(r.returned)
            /\ svSaved' = IF r.returned THEN svSaved \cup {Int_(svCount + 1)} ELSE svSaved
    /\ svCount' = svCount + 1
    /\ UNCHANGED <<pc, svClock>>
    /\ UNCHANGED SvRest

\* a second passes
SaveClockTick ==
    /\ pc = "saving"
    /\ svClock < SvMaxClock
    /\ svClock' = svClock + 1
    /\ UNCHANGED <<pc, svFile, svBackups, svSaved, svCount, svReturned>>
    /\ UNCHANGED SvRest

SvNext == SaveGroupsDataCall \/ SaveClockTick
SpecSave == SvInit /\ [][SvNext]_vars

\* C17: after any sequence of saves of the final artifact, every version that
\* was saved still exists, as the current file or as one of the backup files
\* (and a save whose backup could not be made has not touched the file).
C17_EveryVersionKept ==
    \A v \in svSaved : svFile = v \/ \E t \in DOMAIN svBackups : svBackups[t] = v

-----------------------------------------------------------------------------
(* cli_flow.prompt_text and the loop of prompt_yes_no.  input() returns a
   line, reaches the end of the input, or is still waiting when the time
   limit expires *)

Typed(s) == [k |-> "typed", s |-> s]
Expired == [k |-> "expired"]
EndOfInput == [k |-> "eof"]

\* mutant of prompt_text: asyncio.TimeoutError is not caught
PromptTextUncaught(outcome) ==
    IF outcome = Expired THEN Raise("TimeoutError")
    ELSE IF outcome = EndOfInput THEN Raise("EOFError")
    ELSE Line(outcome.s)

prompt_text(outcome) ==
    IF outcome = Expired THEN TimedOut
    ELSE IF outcome = EndOfInput THEN Raise("EOFError")
    ELSE Line(outcome.s)

(* Specification SpecPrompt: one call of prompt_yes_no *)
PrLines ==
    {<<"y">>, <<" ", "Y", "E", "S", " ">>, <<"U+662F">>, <<"U+786E", "U+8BA4">>, <<"1">>,
     <<"N">>, <<"n", "o", " ">>, <<"U+5426">>, <<"U+53D6", "U+6D88">>, <<"0">>,
     <<>>, <<" ">>, <<"m">>, <<"y", "y">>, <<"2">>, <<"y", " ", "e", "s">>, <<"U+662F", "U+5426">>}

PrInit ==
    /\ pc = "prompting"
    /\ prDefault \in {Null, Bool(TRUE), Bool(FALSE)}
    /\ prTimed \in BOOLEAN
    /\ prTurn = 0
    /\ prRead = Null
    /\ prResult = NotAsked
    /\ PrRestIdle

\* one turn of the loop: read, then return, raise or ask again
PromptTurn ==
    /\ pc = "prompting"
    /\ prTurn < PrMaxTurns
    /\ \E outcome \in {Typed(s) : s \in PrLines} \cup {EndOfInput} \cup
                      (IF prTimed THEN {Expired} ELSE {}) :
        LET answer == prompt_text(outcome)
            r == IF answer.k = "raise" THEN answer ELSE prompt_yes_no(answer, prDefault)
        IN  /\ prRead' = outcome
            /\ IF r = Again THEN UNCHANGED <<pc, prResult>>
               ELSE /\ prResult' = r
                    /\ pc' = IF r.k = "raise" THEN "prompt_raised" ELSE "prompt_returned"
    /\ prTurn' = prTurn + 1
    /\ UNCHANGED <<prDefault, prTimed>>
    /\ UNCHANGED PrRest

PrNext == PromptTurn
SpecPrompt == PrInit /\ [][PrNext]_vars

(* Claim vocabulary for the prompt *)
PrToken == Lower(Strip(prRead.s))
PrEmpty == Strip(prRead.s) = <<>>

\* C18: when the time limit expires the prompt returns None and does not
\* raise; for a line typed it returns true exactly for an affirmative token,
\* false exactly for a negative token, the default for an empty line when a
\* default is configured, and for every other line it returns nothing and
\* asks again.
C18_PromptOutcomes ==
    /\ prRead = Expired => pc = "prompt_returned" /\ prResult = Null
    /\ prRead # Null /\ prRead.k = "typed" =>
        /\ prResult = Bool(TRUE) <=>
                PrToken \in AffirmativeTokens \/ (PrEmpty /\ prDefault = Bool(TRUE))
        /\ prResult = Bool(FALSE) <=>
                PrToken \in NegativeTokens \/ (PrEmpty /\ prDefault = Bool(FALSE))
        /\ PrEmpty /\ prDefault # Null => prResult = prDefault
        /\ prResult \in {Bool(TRUE), Bool(FALSE), NotAsked}
        /\ prResult = NotAsked <=> pc = "prompting"
        /\ pc # "prompt_raised"

\* a line that is no token was read and the prompt asked again; then the
\* time limit expired
C18_Witness ==
    /\ prTurn = 2
    /\ prRead = Expired
    /\ prResult = Null
    /\ pc = "prompt_returned"

-----------------------------------------------------------------------------
(* Specification SpecShape: the shape validator of the organizer package,
   or the one of run.py, applied to a parsed JSON value *)
\* drafts whose ids are no JSON integers but convert with int()
ShCoercible ==
    {Draft(<<Obj([folder_id |-> f, folder_title |-> Str(<<"T">>),
                  chats |-> List(<<ChatOf(c)>>)])>>) :
        f \in {Int_(7), Str(<<"7">>), FloatFin(7, 5), Bool(TRUE)},
        c \in {Int_(1), Str(<<" ", "1">>), FloatFin(1, 0)}}
ShInputs == NormInputs \cup ShCoercible

ShInit ==
    /\ pc = "shape"
    /\ shData \in ShInputs
    /\ shWhich = Null
    /\ shResult = Null
    /\ ShRestIdle

ValidateShape ==
    /\ pc = "shape"
    /\ shWhich' = Str(<<"organizer">>)
    /\ shResult' = validate_groups_json(shData)
    /\ pc' = "shape_checked"
    /\ UNCHANGED shData
    /\ UNCHANGED ShRest

RunValidateShape ==
    /\ pc = "shape"
    /\ shWhich' = Str(<<"run">>)
    /\ shResult' = run_validate_groups_json(shData)
    /\ pc' = "shape_checked"
    /\ UNCHANGED shData
    /\ UNCHANGED ShRest

ShNext == ValidateShape \/ RunValidateShape
SpecShape == ShInit /\ [][ShNext]_vars

(* Claim vocabulary for the shape of a draft: every violation with its place
   <<i, j, rank>>, rank ordering the violations of one entry or chat *)
Coercible(v) == IntCoerce(v).r = "ok"
ChatViolations(chat, i, j) ==
    IF ~IsDict(chat) THEN {<<i, j, 0, "">>}
    ELSE IF ~Has(chat, "chat_id") THEN {<<i, j, 1, "chat_id">>}
    ELSE IF ~Coercible(chat.o["chat_id"]) THEN {<<i, j, 2, "chat_id">>}
    ELSE {}
EntryViolations(e, i) ==
    IF ~IsDict(e) THEN {<<i, -1, 0, "">>}
    ELSE {<<i, -1, 1, "folder_id">> : x \in {1} \ {n \in {1} : Has(e, "folder_id")}}
         \cup {<<i, -1, 2, "folder_title">> : x \in {1} \ {n \in {1} : Has(e, "folder_title")}}
         \cup {<<i, -1, 3, "chats">> : x \in {1} \ {n \in {1} : Has(e, "chats")}}
         \cup (IF Has(e, "folder_id") /\ ~Coercible(e.o["folder_id"])
               THEN {<<i, -1, 4, "folder_id">>} ELSE {})
         \cup (IF Has(e, "chats") /\ ~IsList(e.o["chats"])
               THEN {<<i, -1, 5, "chats">>} ELSE {})
         \cup (IF Has(e, "chats") /\ IsList(e.o["chats"])
               THEN UNION {ChatViolations(e.o["chats"].l[j], i, j - 1) :
                                j \in 1..Len(e.o["chats"].l)}
               ELSE {})
Violations(d) ==
    IF ~IsDict(d) THEN {<<0, 0, 0, "data">>}
    ELSE IF ~Has(d, "categorized") \/ ~IsList(d.o["categorized"])
    THEN {<<0, 0, 0, "categorized">>}
    ELSE UNION {EntryViolations(d.o["categorized"].l[i], i - 1) :
                    i \in 1..Len(d.o["categorized"].l)}
Before(v, w) ==
    \/ v[1] < w[1]
    \/ v[1] = w[1] /\ v[2] < w[2]
    \/ v[1] = w[1] /\ v[2] = w[2] /\ v[3] <= w[3]
FirstViolation(d) == CHOOSE v \in Violations(d) : \A w \in Violations(d) : Before(v, w)

\* C19: the shape validator returns ok exactly for an object with a
\* categorized sequence of objects that hold folder_id, folder_title and
\* chats, the folder_id integer-coercible, chats a sequence of objects with an
\* integer-coercible chat_id; otherwise its one message names the path of the
\* first violation in document order; it never raises.
C19_ShapeOkIffWellShaped ==
    pc = "shape_checked" =>
        /\ shResult.ok <=> Violations(shData) = {}
        /\ ~shResult.ok =>
            LET v == FirstViolation(shData)
            IN  <<shResult.msg[2], shResult.msg[3], shResult.msg[4]>> = <<v[1], v[2], v[4]>>

-----------------------------------------------------------------------------
(* Claims about the rows of the exported review file *)
CsvAssignedIds == {DraftPairs(csvDraft)[n].chat.i : n \in 1..Len(DraftPairs(csvDraft))}
CsvUnassignedAt == {k \in 1..Len(csvChats) : csvChats[k].o.chat_id.i \notin CsvAssignedIds}
\* the n-th unassigned chat of the snapshot, in snapshot order
CsvNthUnassigned(n) ==
    csvChats[CHOOSE k \in CsvUnassignedAt :
                Cardinality({h \in CsvUnassignedAt : h <= k}) = n]

\* C21: the export writes one `categorized` row per chat assignment of the
\* draft, in draft order, then one `unassigned` row with empty folder columns
\* per chat of the snapshot that no assignment holds, in snapshot order; so
\* every chat of the snapshot is in some row and no unassigned row comes
\* before a categorized one.
C21_ExportRows ==
    pc \in {"exported", "round_trip"} =>
        LET rows == csvFile.rows
            pairs == DraftPairs(csvDraft)
        IN  /\ Len(rows) = Len(pairs) + Cardinality(CsvUnassignedAt)
            /\ \A n \in 1..Len(pairs) :
                /\ RowCell(rows[n], "status") = CATEGORIZED
                /\ RowCell(rows[n], "folder_id") = IntToStr(pairs[n].folder.i)
                /\ RowCell(rows[n], "chat_id") = IntToStr(pairs[n].chat.i)
            /\ \A n \in 1..Cardinality(CsvUnassignedAt) :
                /\ RowCell(rows[Len(pairs) + n], "status") = UNASSIGNED
                /\ RowCell(rows[Len(pairs) + n], "folder_id") = <<>>
                /\ RowCell(rows[Len(pairs) + n], "folder_title") = <<>>
                /\ RowCell(rows[Len(pairs) + n], "chat_id")
                        = IntToStr(CsvNthUnassigned(n).o.chat_id.i)
            /\ \A k \in 1..Len(csvChats) : \E n \in 1..Len(rows) :
                RowCell(rows[n], "chat_id") = IntToStr(csvChats[k].o.chat_id.i)
            /\ \A a, b \in 1..Len(rows) :
                RowCell(rows[a], "status") = UNASSIGNED
                    /\ RowCell(rows[b], "status") = CATEGORIZED => b < a

\* a draft with two assignments of one chat was exported with a snapshot of
\* two chats: two categorized rows, then the row of the unassigned chat
C21_Witness ==
    /\ pc = "exported"
    /\ Len(csvChats) = 2
    /\ Len(DraftPairs(csvDraft)) = 2
    /\ Len(csvFile.rows) = 3
    /\ RowCell(csvFile.rows[3], "status") = UNASSIGNED

-----------------------------------------------------------------------------
(* Specification SpecApplyAny: update_folders_with_categorization on drafts
   that were not validated: chat_ids that are no integers among them *)
ApOddItems ==
    {ChatsItem(1, <<Str(<<"x">>), Int_(12)>>), ChatsItem(2, <<Null, Int_(11)>>),
     ChatsItem(1, <<FloatNaN, Int_(10)>>), ChatsItem(1, <<FloatInf, Int_(10)>>)}
ApDraftsAny == {Draft(items) : items \in SeqsUpTo(ApItems \cup ApOddItems, ApMaxFolders)}

ApInitAny ==
    /\ pc = "apply"
    /\ apDraft \in ApDraftsAny
    /\ apFolders \in ApFolderRecords
    /\ apCleared \in BOOLEAN
    /\ apIndex = 1
    /\ apPass = 1
    /\ apRequests = <<>>
    /\ apAfterFirst = <<>>
    /\ ApRestIdle

SpecApplyAny == ApInitAny /\ [][ApNext]_vars

(* Claim vocabulary: the chats of a draft entry that can be resolved *)
ApChatIdOf(chat_item) == IntCoerce(Get(chat_item, "chat_id", Null))
ApIsResolvable(chat_item) ==
    /\ ApChatIdOf(chat_item).r = "ok"
    /\ ApChatIdOf(chat_item).val \in DOMAIN ApDialogMap
    /\ ApDialogMap[ApChatIdOf(chat_item).val] # Null
ApPeerOf(chat_item) == ApDialogMap[ApChatIdOf(chat_item).val]

\* C22: the application never fails on a reference it cannot resolve: an
\* entry whose folder_id is no existing folder and a chat whose chat_id is
\* not in the chat lookup or is no integer are skipped, and every other chat
\* of the draft is submitted to its folder (it is among the peers of the
\* request sent for its entry, or already a member of the folder).
C22_UnresolvableIsSkipped ==
    /\ pc # "apply_raised"
    /\ pc = "applied" /\ apPass = 1 =>
        \A j \in 1..Len(Categorized(apDraft)) :
            LET e == Categorized(apDraft)[j]
                f == ApFolderOf(e, apFolders)
            IN  f # 0 =>
                \A n \in 1..Len(Chats(e)) :
                    ApIsResolvable(Chats(e)[n]) =>
                        \/ \E q \in ApRequestsAt(1, j) :
                                ApPeerOf(Chats(e)[n]) \in Range(apRequests[q].peers)
                        \/ ApPeerOf(Chats(e)[n]) \in Range(apFolders[f])

-----------------------------------------------------------------------------
\* C23: in the unassigned review the draft changes only at a manual-assign
\* to a known folder_id (the chat on display is added, the index advances) or
\* at a confirmed bulk-assign; ignore advances the index by one, relist
\* leaves the index, quit and the suggestion leave draft and index, and
\* after quit every chat from the current index onward is still unassigned.
C23_OnlyAssignmentsChangeDraft ==
    /\ [](pc = "review_aborted" =>
            \A k \in rvIndex..(Len(rvUnassigned) - 1) :
                PairsOfChat(rvDraft, RvChatId(k)) = {})
    /\ [][rvDraft' # rvDraft =>
            \/ /\ rvBulk = Null /\ rvBulk' # Null
               /\ pc' = "review_done"
            \/ /\ rvIndex' = rvIndex + 1
               /\ rvLast' \in RvFolderIds
               /\ PairSet(rvDraft') = PairSet(rvDraft)
                        \cup {[folder |-> Int_(rvLast'), chat |-> RvChatId(rvIndex)]}]_vars
    /\ [][ReviewIgnore => rvDraft' = rvDraft /\ rvIndex' = rvIndex + 1]_vars
    /\ [][ReviewRelist => rvDraft' = rvDraft /\ rvIndex' = rvIndex]_vars
    /\ [][ReviewQuit => rvDraft' = rvDraft /\ rvIndex' = rvIndex]_vars
    /\ [][ReviewSuggest => rvDraft' = rvDraft /\ rvIndex' = rvIndex]_vars

\* one chat was ignored, one assigned by hand after a suggestion was shown,
\* and the review was quit with a chat left
C23_Witness ==
    /\ pc = "review_aborted"
    /\ Len(rvUnassigned) = 3
    /\ rvIndex = 2
    /\ rvSuggested # 0
    /\ PairsOfChat(rvDraft, RvChatId(0)) = {}
    /\ PairsOfChat(rvDraft, RvChatId(1)) # {}
    /\ DraftPairs(rvDraft0) = <<>>

-----------------------------------------------------------------------------
(* telegram_ops.clear_existing_folders, and Specification SpecClearApply: the
   folders are cleared and the draft is applied in cleared mode, or the draft
   is applied in additive mode *)

\* a folder with more than one peer keeps its first peer when the request
\* goes through, and everything when it fails
ClearedPeers(existing_peers, ok) ==
    IF Len(existing_peers) <= 1 THEN existing_peers
    ELSE IF ok THEN <<existing_peers[1]>>
    ELSE existing_peers

ApFolderRecordsBefore ==
    {[f \in {1, 2} |-> IF f = 1 THEN p1 ELSE p2] :
        p1 \in {<<>>, <<Peer("channel", 1)>>, <<Peer("channel", 1), Peer("user", 2)>>,
                <<Peer("user", 2), Peer("user", 3), Peer("channel", 1)>>},
        p2 \in {<<>>, <<Peer("user", 2)>>, <<Peer("user", 3), Peer("user", 2)>>}}

ApInitClear ==
    /\ apDraft \in ApDrafts
    /\ apFolders \in ApFolderRecordsBefore
    /\ \/ pc = "clear" /\ apCleared = TRUE
       \/ pc = "apply" /\ apCleared = FALSE
    /\ apIndex = 1
    /\ apPass = 1
    /\ apRequests = <<>>
    /\ apAfterFirst = <<>>
    /\ ApRestIdle

ClearExistingFolders ==
    /\ pc = "clear"
    /\ \E ok \in [DOMAIN apFolders -> BOOLEAN] :
        apFolders' = [f \in DOMAIN apFolders |-> ClearedPeers(apFolders[f], ok[f])]
    /\ pc' = "apply"
    /\ UNCHANGED <<apDraft, apCleared, apIndex, apPass, apRequests, apAfterFirst>>
    /\ UNCHANGED ApRest

ApClearNext == ClearExistingFolders \/ ApplyFolder \/ ApplyReturn \/ ApplyAgain
SpecClearApply == ApInitClear /\ [][ApClearNext]_vars

\* C24: after the draft was applied, in additive mode or after a clearing that
\* kept one chat per folder, no folder's membership holds one peer identity
\* twice (none did before the run).
C24_NoIdentityTwice ==
    pc = "applied" /\ apPass = 1 =>
        \A f \in DOMAIN apFolders : \A a, b \in 1..Len(apFolders[f]) :
            /\ PeerIdentity(apFolders[f][a]) = PeerIdentity(apFolders[f][b])
            /\ PeerIdentity(apFolders[f][a]) # NoIdentity
            => a = b

-----------------------------------------------------------------------------
(* The rebuilt draft against the reference check *)

\* first line of the file that the rebuild consumed for folder f (0: none)
FirstRowOf(f) ==
    LET Q == {n \in 1..Len(csvFile.rows) :
                /\ RowConsumed(csvFile.rows, n, CsvFolders, csvChats)
                /\ RowFolder(csvFile.rows, n) = f}
    IN  IF Q = {} THEN 0 ELSE CHOOSE n \in Q : \A m \in Q : n <= m

\* C25: whatever the rows of the review file, a draft returned by the rebuild
\* passes the reference check against the ids of the folders and of the chat
\* snapshot it was rebuilt with: every folder_id and chat_id is known, no
\* chat_id occurs twice, and there is one FolderAssignment per folder_id, in
\* the order in which the folders first appear in the consumed rows
C25_RebuiltPassesReferences ==
    (pc \in {"rebuilt", "round_trip"} /\ rebuilt.k = "obj") =>
        LET out == Categorized(rebuilt)
        IN  /\ validate_reference_integrity(rebuilt, FolderIdsOf(CsvFolders),
                    ChatIdsOf(csvChats)) = <<>>
            /\ FoldersKnown(rebuilt, FolderIdsOf(CsvFolders))
            /\ ChatsKnown(rebuilt, ChatIdsOf(csvChats))
            /\ ~OccursTwice(rebuilt)
            /\ \A i, j \in 1..Len(out) :
                /\ FolderId(out[i]) = FolderId(out[j]) => i = j
                /\ FirstRowOf(FolderId(out[i]).i) > 0
                /\ i < j => FirstRowOf(FolderId(out[i]).i) < FirstRowOf(FolderId(out[j]).i)

\* C25 witness: an edited file was rebuilt into two FolderAssignments, the
\* second folder first, although the file also held a row naming an unknown
\* folder or chat and a row repeating a chat_id
C25_Witness ==
    /\ pc = "rebuilt"
    /\ rebuilt.k = "obj"
    /\ Len(Categorized(rebuilt)) = 2
    /\ FolderId(Categorized(rebuilt)[1]).i = 2
    /\ \E n \in 1..Len(csvFile.rows) :
        /\ RowStatus(csvFile.rows[n]) = CATEGORIZED
        /\ ~RowConsumed(csvFile.rows, n, CsvFolders, csvChats)

-----------------------------------------------------------------------------
(* Specification SpecAgree: a draft goes through validate_groups_json and,
   once accepted, through validate_reference_integrity and
   compute_unassigned_chats, with the folders 1, 2 and the chats 10, 11 *)
AgMaxFolders == 2
AgMaxChats == 1

AgChats == <<SnapChat(10), SnapChat(11)>>
\* ids as JSON carries them: integers, texts of integers, a float with a
\* fraction, and null
AgFolderIdValues == {Int_(1), Str(<<"2">>)}
AgChatIdValues == {Int_(10), Str(<<"1", "0">>), FloatFin(11, 5), Null}
AgItems ==
    {Obj([folder_id |-> f, folder_title |-> Str(<<"T">>),
          chats |-> List([n \in 1..Len(ids) |-> ChatOf(ids[n])])]) :
        f \in AgFolderIdValues, ids \in SeqsUpTo(AgChatIdValues, AgMaxChats)}
AgDrafts == {Draft(items) : items \in SeqsUpTo(AgItems, AgMaxFolders)}

AgInit ==
    /\ pc = "ag_shape"
    /\ agData \in AgDrafts
    /\ agShape = Null
    /\ agErrors = <<>>
    /\ agUnassigned = <<>>
    /\ AgRestIdle

AgValidateShape ==
    /\ pc = "ag_shape"
    /\ agShape' = validate_groups_json(agData)
    /\ pc' = IF validate_groups_json(agData).ok THEN "ag_refs" ELSE "ag_rejected"
    /\ UNCHANGED <<agData, agErrors, agUnassigned>>
    /\ UNCHANGED AgRest

AgValidateReferences ==
    /\ pc = "ag_refs"
    /\ agErrors' = validate_reference_integrity(agData, ValidFolderIds, ChatIdsOf(AgChats))
    /\ pc' = "ag_unassigned"
    /\ UNCHANGED <<agData, agShape, agUnassigned>>
    /\ UNCHANGED AgRest

AgComputeUnassigned ==
    /\ pc = "ag_unassigned"
    /\ agUnassigned' = compute_unassigned_chats(AgChats, agData)
    /\ pc' = "ag_done"
    /\ UNCHANGED <<agData, agShape, agErrors>>
    /\ UNCHANGED AgRest

AgNext == AgValidateShape \/ AgValidateReferences \/ AgComputeUnassigned
SpecAgree == AgInit /\ [][AgNext]_vars

\* the ids of the draft, coerced as validate_groups_json coerces them, are
\* all known, no folder_id is in two entries and no chat_id at two places
AgKnownAndDistinct(d) ==
    /\ \A i \in 1..Len(Categorized(d)) :
        IntCoerce(FolderId(Categorized(d)[i])).val \in ValidFolderIds
    /\ \A i, j \in 1..Len(Categorized(d)) :
        IntCoerce(FolderId(Categorized(d)[i])).val = IntCoerce(FolderId(Categorized(d)[j])).val
            => i = j
    /\ \A p \in ChatPositions(d) : IntCoerce(ChatAt(d, p)).val \in ChatIdsOf(AgChats)
    /\ \A p, q \in ChatPositions(d) :
        IntCoerce(ChatAt(d, p)).val = IntCoerce(ChatAt(d, q)).val => p = q

\* C26: a draft that validate_groups_json accepts and whose folder_id and
\* chat_id values are, as integers, all known and pairwise distinct gets no
\* message from validate_reference_integrity, and none of its chats is in
\* the list compute_unassigned_chats returns
C26_ChecksAgreeOnIds ==
    (pc = "ag_done" /\ agShape.ok /\ AgKnownAndDistinct(agData)) =>
        /\ agErrors = <<>>
        /\ \A p \in ChatPositions(agData) :
            \A n \in 1..Len(agUnassigned) :
                IntCoerce(agUnassigned[n].o["chat_id"]).val # IntCoerce(ChatAt(agData, p)).val

-----------------------------------------------------------------------------
(* Specification SpecAssign: add_chat_assignment is called, again and again,
   on a normalized draft with a chat of the snapshot and a folder id *)
AsMaxFolders == 2
AsMaxAdds == 2

AsChats == <<SnapChat(10), SnapChat(11), SnapChat(12)>>
AsFolderIds == {1, 2, 3}
AsItems ==
    {FolderItem(1, <<"A">>, <<>>), FolderItem(1, <<"A">>, <<10>>),
     FolderItem(2, <<"B">>, <<11>>), FolderItem(2, <<"B">>, <<11, 10>>)}
\* normalized drafts, one of them an object without the key categorized
AsDrafts == {Draft(items) : items \in SeqsUpTo(AsItems, AsMaxFolders)} \cup {Obj(EmptyRec)}

AsInit ==
    /\ pc = "assign"
    /\ asDraft \in AsDrafts
    /\ asBefore = Null
    /\ asArgs = Null
    /\ asCount = 0
    /\ AsRestIdle

AddChatAssignment ==
    /\ pc = "assign"
    /\ asCount < AsMaxAdds
    /\ \E folder_id \in AsFolderIds, n \in 1..Len(AsChats) :
        /\ asArgs' = [folder_id |-> folder_id, folder_title |-> <<"T">>,
                      chat |-> AsChats[n], reason |-> <<"r">>]
        /\ asDraft' = add_chat_assignment(asDraft, folder_id, <<"T">>, AsChats[n], <<"r">>)
    /\ asBefore' = asDraft
    /\ asCount' = asCount + 1
    /\ UNCHANGED pc
    /\ UNCHANGED AsRest

AsNext == AddChatAssignment
SpecAssign == AsInit /\ [][AsNext]_vars

\* the FolderAssignments of a draft, none when it has no key categorized
AsEntries(d) == Get(d, "categorized", List(<<>>)).l
\* the ChatAssignment the last call had to add
AsAdded ==
    Obj([chat_id |-> asArgs.chat.o["chat_id"], type |-> asArgs.chat.o["type"],
         reason |-> Str(asArgs.reason)])
\* a sequence without the chats of a given chat_id
RECURSIVE WithoutChat(_, _)
WithoutChat(chats, chat_id) ==
    IF chats = <<>> THEN <<>>
    ELSE IF Head(chats).o["chat_id"] = chat_id THEN WithoutChat(Tail(chats), chat_id)
    ELSE <<Head(chats)>> \o WithoutChat(Tail(chats), chat_id)

\* C27: a call of add_chat_assignment adds one ChatAssignment for the chat,
\* at the end of the first FolderAssignment with the folder_id, or in a new
\* FolderAssignment appended at the end when there is none; every other
\* FolderAssignment, every ChatAssignment that was there and the order of
\* the entries stay as they were; and compute_unassigned_chats then returns
\* what it returned before, without that chat
C27_AddChatAssignmentFrame ==
    (pc = "assign" /\ asCount > 0) =>
        LET b == AsEntries(asBefore)
            a == AsEntries(asDraft)
            T == {i \in 1..Len(b) : FolderId(b[i]) = Int_(asArgs.folder_id)}
        IN  /\ IF T = {}
               THEN /\ Len(a) = Len(b) + 1
                    /\ \A i \in 1..Len(b) : a[i] = b[i]
                    /\ a[Len(a)] = Obj([folder_id |-> Int_(asArgs.folder_id),
                                        folder_title |-> Str(asArgs.folder_title),
                                        chats |-> List(<<AsAdded>>)])
               ELSE LET t == CHOOSE i \in T : \A h \in T : i <= h
                    IN  /\ Len(a) = Len(b)
                        /\ \A i \in 1..Len(b) : i # t => a[i] = b[i]
                        /\ FolderId(a[t]) = FolderId(b[t])
                        /\ a[t].o["folder_title"] = b[t].o["folder_title"]
                        /\ Chats(a[t]) = Append(Chats(b[t]), AsAdded)
            /\ compute_unassigned_chats(AsChats, asDraft) =
                    WithoutChat(compute_unassigned_chats(AsChats, asBefore),
                                asArgs.chat.o["chat_id"])

\* C27 witness: a chat that was unassigned was added to a folder that has two
\* FolderAssignments, and another chat is still unassigned
C27_Witness ==
    /\ pc = "assign"
    /\ asCount > 0
    /\ Cardinality({i \in 1..Len(AsEntries(asBefore)) :
            FolderId(AsEntries(asBefore)[i]) = Int_(asArgs.folder_id)}) = 2
    /\ \E n \in 1..Len(compute_unassigned_chats(AsChats, asBefore)) :
        compute_unassigned_chats(AsChats, asBefore)[n] = asArgs.chat
    /\ compute_unassigned_chats(AsChats, asDraft) # <<>>

-----------------------------------------------------------------------------
(* The merger keeps every chat and every folder *)

\* the FolderAssignments of all batch results, in batch order
RECURSIVE ResultsEntries(_)
ResultsEntries(rs) ==
    IF rs = <<>> THEN <<>> ELSE Categorized(Head(rs)) \o ResultsEntries(Tail(rs))
\* place of the first FolderAssignment with the folder_id in a sequence
FirstEntryOf(entries, folder_id) ==
    CHOOSE n \in 1..Len(entries) :
        /\ FolderId(entries[n]) = folder_id
        /\ \A h \in 1..(n - 1) : FolderId(entries[h]) # folder_id

\* C28: the merged draft holds the chat_ids of all batch results, each of
\* them once, and one FolderAssignment for every folder_id of the batch
\* results - also for a folder that keeps no chat - in the order in which
\* the folder_ids first appear
C28_MergeLosesNothing ==
    pc = "merged" =>
        LET out == Categorized(merged)
            inp == ResultsEntries(results)
        IN  /\ {DraftPairs(merged)[n].chat : n \in 1..Len(DraftPairs(merged))}
                = {ResultsPairs(results)[n].chat : n \in 1..Len(ResultsPairs(results))}
            /\ \A a, b \in 1..Len(DraftPairs(merged)) :
                DraftPairs(merged)[a].chat = DraftPairs(merged)[b].chat => a = b
            /\ {FolderId(out[i]) : i \in 1..Len(out)} = {FolderId(inp[n]) : n \in 1..Len(inp)}
            /\ \A i, j \in 1..Len(out) :
                /\ FolderId(out[i]) = FolderId(out[j]) => i = j
                /\ i < j => FirstEntryOf(inp, FolderId(out[i])) < FirstEntryOf(inp, FolderId(out[j]))

\* C28 witness: a folder met again in a later batch, after another folder,
\* a folder without any chat, and a folder one of whose chats an earlier
\* folder had taken, were merged
C28_Witness ==
    /\ pc = "merged"
    /\ Len(results) = 2
    /\ \E n \in 1..Len(Categorized(results[2])) :
        /\ n > 1
        /\ FolderId(Categorized(results[2])[n]) = FolderId(Categorized(merged)[1])
    /\ \E i \in 1..Len(Categorized(merged)) : Chats(Categorized(merged)[i]) = <<>>
    /\ Len(DraftPairs(merged)) < Len(ResultsPairs(results))
    /\ \E n \in 1..Len(ResultsPairs(results)) :
        \A a \in 1..Len(DraftPairs(merged)) : DraftPairs(merged)[a] # ResultsPairs(results)[n]

-----------------------------------------------------------------------------
(* Specification SpecInput: cli_flow.prompt_text with its reader threads.
   asyncio.to_thread(input, prompt) runs input() in a thread of the default
   executor; asyncio.wait_for gives up waiting when the timeout passes, but a
   thread that has started cannot be cancelled and stays inside input(); the
   run ends when asyncio.run has joined the threads of the executor *)
IoMaxPrompts == 3
IoMaxLines == 2

IoInit ==
    /\ pc = "io_idle"
    /\ ioPrompt = 0
    /\ ioTimed \in BOOLEAN
    /\ ioReaders = {}
    /\ ioStdin = <<>>
    /\ ioTyped = 0
    /\ ioDelivered = <<>>
    /\ ioResult = Null
    /\ IoRestIdle

\* prompt_text is called: input() starts in a new thread
IoPromptText ==
    /\ pc = "io_idle"
    /\ ioPrompt < IoMaxPrompts
    /\ ioPrompt' = ioPrompt + 1
    /\ ioReaders' = ioReaders \cup {ioPrompt + 1}
    /\ ioTimed' \in BOOLEAN
    /\ ioResult' = Null
    /\ pc' = "io_waiting"
    /\ UNCHANGED <<ioStdin, ioTyped, ioDelivered>>
    /\ UNCHANGED IoRest

\* the user enters a line
IoUserTypes ==
    /\ pc \in {"io_idle", "io_waiting", "io_ending"}
    /\ ioTyped < IoMaxLines
    /\ ioTyped' = ioTyped + 1
    /\ ioStdin' = Append(ioStdin, ioTyped + 1)
    /\ UNCHANGED <<pc, ioPrompt, ioTimed, ioReaders, ioDelivered, ioResult>>
    /\ UNCHANGED IoRest

\* one of the threads inside input() reads the next line; prompt_text
\* returns it if that thread is the one it awaits
IoInputReturns ==
    /\ pc \in {"io_idle", "io_waiting", "io_ending"}
    /\ ioStdin # <<>>
    /\ \E r \in ioReaders :
        LET awaited == pc = "io_waiting" /\ r = ioPrompt
        IN  /\ ioReaders' = ioReaders \ {r}
            /\ ioDelivered' = Append(ioDelivered,
                    [line |-> Head(ioStdin), prompt |-> r, awaited |-> awaited])
            /\ ioResult' = IF awaited THEN Int_(Head(ioStdin)) ELSE ioResult
            /\ pc' = IF awaited THEN "io_idle" ELSE pc
    /\ ioStdin' = Tail(ioStdin)
    /\ UNCHANGED <<ioPrompt, ioTimed, ioTyped>>
    /\ UNCHANGED IoRest

\* asyncio.TimeoutError: prompt_text returns None, the thread goes on
IoTimeout ==
    /\ pc = "io_waiting"
    /\ ioTimed
    /\ ioResult' = Raise("TimeoutError")
    /\ pc' = "io_idle"
    /\ UNCHANGED <<ioPrompt, ioTimed, ioReaders, ioStdin, ioTyped, ioDelivered>>
    /\ UNCHANGED IoRest

\* the controller returns: asyncio.run shuts the default executor down
IoRunReturns ==
    /\ pc = "io_idle"
    /\ pc' = "io_ending"
    /\ UNCHANGED ioVars
    /\ UNCHANGED IoRest

\* every thread of the executor has been joined: the process ends
IoExit ==
    /\ pc = "io_ending"
    /\ ioReaders = {}
    /\ pc' = "io_ended"
    /\ UNCHANGED ioVars
    /\ UNCHANGED IoRest

IoNext ==
    \/ IoPromptText
    \/ IoUserTypes
    \/ IoInputReturns
    \/ IoTimeout
    \/ IoRunReturns
    \/ IoExit
SpecInput == IoInit /\ [][IoNext]_vars

\* C29: a prompt that expired reads nothing more - every line the user
\* enters is read for the prompt that is awaited - and when the controller
\* has returned no thread of an expired prompt is left inside input(), so
\* that the run can end
C29_ExpiredPromptReadsNothing ==
    /\ \A n \in 1..Len(ioDelivered) : ioDelivered[n].awaited
    /\ pc = "io_ending" => ioReaders = {}

-----------------------------------------------------------------------------
(* Specification SpecRetry: ai_clients._run_with_retry around a provider
   call that raises or returns; max_retries is at least 1 (config.py:168) *)
RtMaxRetries == 3
RtMaxBackoff == 2

RtInit ==
    /\ pc = "rt_call"
    /\ rtMaxRetries \in 1..RtMaxRetries
    /\ rtBackoff \in 1..RtMaxBackoff
    /\ rtAttempt = 1
    /\ rtInFlight = 0
    /\ rtCalls = 0
    /\ rtFailures = <<>>
    /\ rtDelays = <<>>
    /\ rtResult = Null
    /\ RtRestIdle

\* `await asyncio.to_thread(func)` starts the call
RtCall ==
    /\ pc = "rt_call"
    /\ rtAttempt <= rtMaxRetries
    /\ rtInFlight' = rtInFlight + 1
    /\ rtCalls' = rtCalls + 1
    /\ pc' = "rt_await"
    /\ UNCHANGED <<rtMaxRetries, rtBackoff, rtAttempt, rtFailures, rtDelays, rtResult>>
    /\ UNCHANGED RtRest

\* the call returns: `return await ...`
RtReturns ==
    /\ pc = "rt_await"
    /\ rtInFlight' = rtInFlight - 1
    /\ rtResult' = Str(<<JsonText(ClsGood)>>)
    /\ pc' = "rt_done"
    /\ UNCHANGED <<rtMaxRetries, rtBackoff, rtAttempt, rtCalls, rtFailures, rtDelays>>
    /\ UNCHANGED RtRest

\* the call raises: `except Exception as exc`
RtRaises ==
    /\ pc = "rt_await"
    /\ rtInFlight' = rtInFlight - 1
    /\ \E exc \in ClsErrors :
        /\ rtFailures' = Append(rtFailures, exc)
        /\ IF is_retryable_exception(exc) /\ rtAttempt < rtMaxRetries
           THEN /\ rtDelays' = Append(rtDelays, rtBackoff * 2 ^ (rtAttempt - 1))
                /\ pc' = "rt_sleep"
                /\ UNCHANGED rtResult
           ELSE /\ rtResult' = Raise("AIClientError")
                /\ pc' = "rt_done"
                /\ UNCHANGED rtDelays
    /\ UNCHANGED <<rtMaxRetries, rtBackoff, rtAttempt, rtCalls>>
    /\ UNCHANGED RtRest

\* `await asyncio.sleep(delay)` is over: `continue`
RtSleepEnds ==
    /\ pc = "rt_sleep"
    /\ rtAttempt' = rtAttempt + 1
    /\ pc' = "rt_call"
    /\ UNCHANGED <<rtMaxRetries, rtBackoff, rtInFlight, rtCalls, rtFailures, rtDelays, rtResult>>
    /\ UNCHANGED RtRest

RtNext == RtCall \/ RtReturns \/ RtRaises \/ RtSleepEnds
SpecRetry == RtInit /\ [][RtNext]_vars

\* a failure after which the request may be called again
RtRetryable(exc) ==
    \/ exc.status_code = 429
    \/ (exc.status_code # NoStatus /\ exc.status_code >= 500)
    \/ exc.transient

\* C30: the request is called one call after another, at least once and at
\* most max_retries times; the first result is returned at once; a call
\* follows a failure only if that failure was retryable and attempts
\* remained, after a wait of backoff * 2^(attempt - 1); in every other case
\* AIClientError is raised
C30_RetryWrapper ==
    /\ rtInFlight \in {0, 1}
    /\ rtCalls <= rtMaxRetries
    /\ rtCalls = rtAttempt - (IF pc = "rt_call" THEN 1 ELSE 0)
    /\ \A n \in 1..Len(rtDelays) :
        /\ RtRetryable(rtFailures[n])
        /\ n < rtMaxRetries
        /\ rtDelays[n] = rtBackoff * 2 ^ (n - 1)
    /\ pc \in {"rt_call", "rt_await"} => Len(rtFailures) = rtCalls - rtInFlight /\ Len(rtDelays) = Len(rtFailures)
    /\ pc = "rt_sleep" => Len(rtDelays) = rtCalls /\ Len(rtFailures) = rtCalls
    /\ pc = "rt_done" =>
        /\ rtCalls >= 1
        /\ rtInFlight = 0
        /\ Len(rtDelays) = rtCalls - 1
        /\ IF rtResult.k = "raise"
           THEN /\ rtResult = Raise("AIClientError")
                /\ Len(rtFailures) = rtCalls
                /\ ~RtRetryable(rtFailures[rtCalls]) \/ rtCalls = rtMaxRetries
           ELSE Len(rtFailures) = rtCalls - 1

\* C30 witness: two retryable failures, each followed by its wait, and then
\* a failure that is not retried although an attempt remained
C30_Witness ==
    /\ pc = "rt_done"
    /\ rtCalls = 3
    /\ rtBackoff = 2
    /\ rtDelays = <<2, 4>>
    /\ rtResult = Raise("AIClientError")
    /\ ~RtRetryable(rtFailures[3])

=============================================================================
